---- MODULE Spec2Model ----
(***************************************************************************)
(* Status-tracking daemon of claude-code-ui: the session status machine    *)
(* (status-machine.ts), the status derivation (status.ts) and the session  *)
(* watcher (watcher.ts) with its signal files and log-file passes.         *)
(*                                                                         *)
(* Time is in milliseconds since the epoch.  A log file is a sequence of   *)
(* tokens: one token per JSON payload and one per newline; a byte offset   *)
(* is an index into that sequence.                                         *)
(***************************************************************************)
EXTENDS Integers, Sequences, FiniteSets, TLC

VARIABLES
  now,        \* Date.now(), the evaluation instant
  actor,      \* the XState actor: [value, context]
  lastEvent,  \* the event last sent to the actor
  prevActor,  \* the actor's snapshot before that event
  dEntries,   \* deriveStatusFromMachine: the entry list given
  dPc,        \* deriveStatusFromMachine: position in the function
  dIdx,       \* deriveStatusFromMachine: index of the for loop
  dReplayed,  \* snapshot taken after the loop (line 242)
  dSent,      \* the synthetic timeout events sent (lines 255-261)
  dResult,    \* the value returned (lines 267-270)
  dRun,       \* which of two successive derivations is running
  dFirst,     \* the value the first derivation returned
  file,       \* the session's log file: its tokens
  fileState,  \* "absent", "present" or "deleted"
  sessions,   \* SessionWatcher.sessions
  pendingPermissions,  \* SessionWatcher.pendingPermissions (its keys)
  stopSignals,         \* SessionWatcher.stopSignals (its keys)
  endedSignals,        \* SessionWatcher.endedSignals (its keys)
  sigFiles,   \* which signal files of the session exist on disk
  sigReads,   \* the handleSignalFile calls awaiting readFile
  passes,     \* the handleFile calls in flight
  debounceTimer,  \* SessionWatcher.debounceTimers has the file's path
  emitted,    \* the session events the last step emitted
  handled,    \* the type of the signal handleSignalFile applied last ("none" at start)
  reader,     \* a caller of tailJSONL that reads the file offset after offset
  deletedTracked, \* handleDelete has removed the session from the map (history)
  life,       \* start() and stop(): where start() is, what stop() has left
  debounce    \* debouncedHandleFile for two paths: the clock, the timers, the calls

machineVars == <<actor, lastEvent, prevActor>>
deriveVars == <<dEntries, dPc, dIdx, dReplayed, dSent, dResult, dRun, dFirst>>
watcherVars ==
  <<file, fileState, sessions, pendingPermissions, stopSignals, endedSignals,
    sigFiles, sigReads, passes, debounceTimer, emitted, handled, reader, deletedTracked, life, debounce>>
vars ==
  <<now, actor, lastEvent, prevActor, dEntries, dPc, dIdx, dReplayed, dSent, dResult,
    dRun, dFirst, file, fileState, sessions, pendingPermissions, stopSignals,
    endedSignals, sigFiles, sigReads, passes, debounceTimer, emitted, handled, reader, deletedTracked, life, debounce>>

----------------------------------------------------------------------------
(* Bounds of the model *)

\* longest entry list given to the deriver
MaxEntries == 3
\* largest message count the stand-alone machine is driven to
MaxCount == 3
\* most lines written to the session's log file
MaxLines == 2
\* most handleFile calls in flight at once
MaxPasses == 2
\* most handleSignalFile calls in flight at once
MaxReads == 2
\* most content blocks of an entry given to the event extraction
MaxBlocks == 2

----------------------------------------------------------------------------
(* types.ts: log entries *)

NoTimestamp == 0

Block(type, id, name) == [type |-> type, id |-> id, name |-> name]

UserString(ts) ==
  [type |-> "user", content |-> "string", blocks |-> <<>>, subtype |-> "", timestamp |-> ts]
UserBlocks(blocks, ts) ==
  [type |-> "user", content |-> "array", blocks |-> blocks, subtype |-> "", timestamp |-> ts]
AssistantBlocks(blocks, ts) ==
  [type |-> "assistant", content |-> "array", blocks |-> blocks, subtype |-> "", timestamp |-> ts]
SystemEntry(subtype, ts) ==
  [type |-> "system", content |-> "none", blocks |-> <<>>, subtype |-> subtype, timestamp |-> ts]
QueueOperationEntry(ts) ==
  [type |-> "queue-operation", content |-> "string", blocks |-> <<>>, subtype |-> "", timestamp |-> ts]

ToolResult(id) == Block("tool_result", id, "")
ToolUse(id, name) == Block("tool_use", id, name)
TextBlock == Block("text", "", "")
ThinkingBlock == Block("thinking", "", "")
ImageBlock == Block("image", "", "")

\* The entry shapes the deriver is exercised with, stamped ts.
EntryShape(k, ts) ==
  CASE k = 1 -> UserString(ts)
    [] k = 2 -> UserBlocks(<<ToolResult("t1")>>, ts)
    [] k = 3 -> UserBlocks(<<TextBlock, ImageBlock>>, ts)
    [] k = 4 -> AssistantBlocks(<<TextBlock>>, ts)
    [] k = 5 -> AssistantBlocks(<<TextBlock, ToolUse("t1", "Bash")>>, ts)
    [] k = 6 -> AssistantBlocks(<<ToolUse("t2", "Edit"), ToolUse("t3", "Read")>>, ts)
    [] k = 7 -> AssistantBlocks(<<ToolUse("t3", "Read")>>, ts)
    [] k = 8 -> SystemEntry("turn_duration", ts)
    [] k = 9 -> QueueOperationEntry(ts)

ShapeIds == 1..9

\* The i-th entry of a list is written at second i.
StampOf(i) == i * 1000

EntryLists ==
  UNION { { [i \in 1..n |-> EntryShape(f[i], StampOf(i))] : f \in [1..n -> ShapeIds] }
          : n \in 0..MaxEntries }

\* Elapsed times around the two thresholds.
Elapsed == {0, 15000, 15001, 60000, 60001}

Instants == { StampOf(i) + d : i \in 1..MaxEntries, d \in Elapsed }

----------------------------------------------------------------------------
(* status-machine.ts *)

APPROVAL_TIMEOUT_MS == 15000
STALE_TIMEOUT_MS == 60000

autoApprovedTools ==
  {"Task", "Read", "Glob", "Grep", "WebSearch", "WebFetch", "TodoWrite",
   "AskUserQuestion", "NotebookEdit", "TaskOutput"}

InSeq(x, s) == \E i \in 1..Len(s) : s[i] = x

BlockIds(blocks) == [i \in 1..Len(blocks) |-> blocks[i].id]

NoEvent == [type |-> "null", timestamp |-> NoTimestamp, toolUseIds |-> <<>>]
Event(type, ts, ids) == [type |-> type, timestamp |-> ts, toolUseIds |-> ids]

logEntryToEvent(entry) ==
  LET toolResults == SelectSeq(entry.blocks, LAMBDA b : b.type = "tool_result")
      hasTextBlock == \E i \in 1..Len(entry.blocks) : entry.blocks[i].type = "text"
      toolUseBlocks == SelectSeq(entry.blocks,
                         LAMBDA b : b.type = "tool_use" /\ b.name \notin autoApprovedTools)
  IN  IF entry.type = "user" /\ entry.content = "string"
        THEN Event("USER_PROMPT", entry.timestamp, <<>>)
      ELSE IF entry.type = "user" /\ entry.content = "array" /\ Len(toolResults) > 0
        THEN Event("TOOL_RESULT", entry.timestamp, BlockIds(toolResults))
      ELSE IF entry.type = "user" /\ entry.content = "array" /\ hasTextBlock
        THEN Event("USER_PROMPT", entry.timestamp, <<>>)
      ELSE IF entry.type = "assistant" /\ Len(toolUseBlocks) > 0
        THEN Event("ASSISTANT_TOOL_USE", entry.timestamp, BlockIds(toolUseBlocks))
      ELSE IF entry.type = "assistant"
        THEN Event("ASSISTANT_STREAMING", entry.timestamp, <<>>)
      ELSE IF entry.type = "system"
              /\ entry.subtype \in {"turn_duration", "stop_hook_summary"}
        THEN Event("TURN_END", entry.timestamp, <<>>)
      ELSE NoEvent

\* context: () => ({...}), the factory of the machine's initial context
initialContext ==
  [lastActivityAt |-> NoTimestamp, messageCount |-> 0,
   hasPendingToolUse |-> FALSE, pendingToolIds |-> <<>>]

Snapshot(value, context) == [value |-> value, context |-> context]

\* pendingToolIds.filter((id) => !event.toolUseIds.includes(id))
remaining(context, event) ==
  SelectSeq(context.pendingToolIds, LAMBDA id : ~InSeq(id, event.toolUseIds))

\* states.working.on
workingOn(context, event) ==
  CASE event.type = "USER_PROMPT" ->
         Snapshot("working",
           [context EXCEPT !.lastActivityAt = event.timestamp,
                           !.messageCount = @ + 1,
                           !.hasPendingToolUse = FALSE,
                           !.pendingToolIds = <<>>])
    [] event.type = "ASSISTANT_STREAMING" ->
         Snapshot("working", [context EXCEPT !.lastActivityAt = event.timestamp])
    [] event.type = "ASSISTANT_TOOL_USE" ->
         Snapshot("working",
           [context EXCEPT !.lastActivityAt = event.timestamp,
                           !.messageCount = @ + 1,
                           !.hasPendingToolUse = TRUE,
                           !.pendingToolIds = event.toolUseIds])
    [] event.type = "TOOL_RESULT" ->
         Snapshot("working",
           [context EXCEPT !.lastActivityAt = event.timestamp,
                           !.messageCount = @ + 1,
                           !.pendingToolIds = remaining(context, event),
                           !.hasPendingToolUse = Len(remaining(context, event)) > 0])
    [] event.type = "TURN_END" ->
         Snapshot("waiting_for_input",
           [context EXCEPT !.lastActivityAt = event.timestamp,
                           !.hasPendingToolUse = FALSE,
                           !.pendingToolIds = <<>>])
    [] event.type = "APPROVAL_TIMEOUT" ->
         Snapshot("waiting_for_approval", context)
    [] event.type = "STALE_TIMEOUT" ->
         Snapshot("waiting_for_input", [context EXCEPT !.hasPendingToolUse = FALSE])
    [] OTHER -> Snapshot("working", context)

\* states.waiting_for_approval.on
waitingForApprovalOn(context, event) ==
  CASE event.type = "TOOL_RESULT" ->
         Snapshot("working",
           [context EXCEPT !.lastActivityAt = event.timestamp,
                           !.messageCount = @ + 1,
                           !.pendingToolIds = remaining(context, event),
                           !.hasPendingToolUse = Len(remaining(context, event)) > 0])
    [] OTHER -> Snapshot("waiting_for_approval", context)

\* waiting_for_input whose USER_PROMPT transition has lost its target
waitingForInputOnStays(context, event) ==
  CASE event.type = "USER_PROMPT" ->
         Snapshot("waiting_for_input",
           [context EXCEPT !.lastActivityAt = event.timestamp,
                           !.messageCount = @ + 1])
    [] event.type = "ASSISTANT_STREAMING" ->
         Snapshot("waiting_for_input", [context EXCEPT !.lastActivityAt = event.timestamp])
    [] event.type = "TURN_END" ->
         Snapshot("waiting_for_input", [context EXCEPT !.lastActivityAt = event.timestamp])
    [] OTHER -> Snapshot("waiting_for_input", context)

\* states.waiting_for_input.on
waitingForInputOn(context, event) ==
  CASE event.type = "USER_PROMPT" ->
         Snapshot("working",
           [context EXCEPT !.lastActivityAt = event.timestamp,
                           !.messageCount = @ + 1])
    [] event.type = "ASSISTANT_STREAMING" ->
         Snapshot("waiting_for_input", [context EXCEPT !.lastActivityAt = event.timestamp])
    [] event.type = "TURN_END" ->
         Snapshot("waiting_for_input", [context EXCEPT !.lastActivityAt = event.timestamp])
    [] OTHER -> Snapshot("waiting_for_input", context)

\* statusMachine with a TURN_END in working that forgets to empty pendingToolIds
statusMachineKeepsIds(snapshot, event) ==
  IF snapshot.value = "working" /\ event.type = "TURN_END"
    THEN Snapshot("waiting_for_input",
           [snapshot.context EXCEPT !.lastActivityAt = event.timestamp,
                                    !.hasPendingToolUse = FALSE])
  ELSE IF snapshot.value = "working" THEN workingOn(snapshot.context, event)
  ELSE IF snapshot.value = "waiting_for_approval"
    THEN waitingForApprovalOn(snapshot.context, event)
  ELSE waitingForInputOn(snapshot.context, event)

\* actor.send(event): one transition of statusMachine
statusMachine(snapshot, event) ==
  CASE snapshot.value = "working" -> workingOn(snapshot.context, event)
    [] snapshot.value = "waiting_for_approval" -> waitingForApprovalOn(snapshot.context, event)
    [] snapshot.value = "waiting_for_input" -> waitingForInputOn(snapshot.context, event)

\* createMachine({initial, context, states}): the machine before any actor runs
machineDefinition == Snapshot("waiting_for_input", initialContext)

\* A machine whose context is one object literal shared by every actor:
\* the next actor starts from the context the previous one left.
createActorSharedContext == Snapshot("waiting_for_input", actor.context)

\* A machine declared with initial: "working"
createActorWorking == Snapshot("working", initialContext)

\* createActor(statusMachine) and actor.start(): initial state, fresh context
createActor == Snapshot("waiting_for_input", initialContext)

\* The loop body with the approval check made after every entry instead of
\* once after the loop.
sendEntryChecksApproval(snapshot, entry) ==
  LET sent == IF logEntryToEvent(entry) = NoEvent
                THEN snapshot
                ELSE statusMachine(snapshot, logEntryToEvent(entry))
  IN  IF sent.value = "working" /\ sent.context.hasPendingToolUse
         /\ now - sent.context.lastActivityAt > APPROVAL_TIMEOUT_MS
        THEN Snapshot("waiting_for_approval", sent.context)
        ELSE sent

\* The loop body with the count raised for every entry.
sendEntryCountsAll(snapshot, entry) ==
  LET sent == IF logEntryToEvent(entry) = NoEvent
                THEN snapshot
                ELSE statusMachine(snapshot, logEntryToEvent(entry))
  IN  [sent EXCEPT !.context.messageCount = snapshot.context.messageCount + 1]

\* for (const entry of entries) { event = logEntryToEvent(entry); if (event) actor.send(event) }
sendEntry(snapshot, entry) ==
  IF logEntryToEvent(entry) = NoEvent
    THEN snapshot
    ELSE statusMachine(snapshot, logEntryToEvent(entry))

\* The timeout check with the approval comparison written >= instead of >
timeoutEventsApprovalAtThreshold(snapshot, instant) ==
  LET context == snapshot.context
      timeSinceActivity == instant - context.lastActivityAt
  IN  IF snapshot.value = "working" /\ context.hasPendingToolUse
         /\ timeSinceActivity >= APPROVAL_TIMEOUT_MS
        THEN <<Event("APPROVAL_TIMEOUT", NoTimestamp, <<>>)>>
      ELSE IF snapshot.value = "working" /\ ~context.hasPendingToolUse
              /\ timeSinceActivity > STALE_TIMEOUT_MS
        THEN <<Event("STALE_TIMEOUT", NoTimestamp, <<>>)>>
      ELSE <<>>

\* The timeout check with the stale comparison written against the approval threshold
timeoutEventsStaleTooEarly(snapshot, instant) ==
  LET context == snapshot.context
      timeSinceActivity == instant - context.lastActivityAt
  IN  IF snapshot.value = "working" /\ context.hasPendingToolUse
         /\ timeSinceActivity > APPROVAL_TIMEOUT_MS
        THEN <<Event("APPROVAL_TIMEOUT", NoTimestamp, <<>>)>>
      ELSE IF snapshot.value = "working" /\ ~context.hasPendingToolUse
              /\ timeSinceActivity > APPROVAL_TIMEOUT_MS
        THEN <<Event("STALE_TIMEOUT", NoTimestamp, <<>>)>>
      ELSE <<>>

\* lines 246-261: the synthetic events the timeout check sends, in order
timeoutEvents(snapshot, instant) ==
  LET context == snapshot.context
      lastActivityTime ==
        IF context.lastActivityAt # NoTimestamp THEN context.lastActivityAt ELSE 0
      timeSinceActivity == instant - lastActivityTime
  IN  IF snapshot.value = "working" /\ context.hasPendingToolUse
         /\ timeSinceActivity > APPROVAL_TIMEOUT_MS
        THEN <<Event("APPROVAL_TIMEOUT", NoTimestamp, <<>>)>>
      ELSE IF snapshot.value = "working" /\ ~context.hasPendingToolUse
              /\ timeSinceActivity > STALE_TIMEOUT_MS
        THEN <<Event("STALE_TIMEOUT", NoTimestamp, <<>>)>>
      ELSE <<>>

RECURSIVE sendAll(_, _)
sendAll(snapshot, events) ==
  IF events = <<>> THEN snapshot
  ELSE sendAll(statusMachine(snapshot, Head(events)), Tail(events))

RECURSIVE replay(_, _)
replay(snapshot, entries) ==
  IF entries = <<>> THEN snapshot
  ELSE replay(sendEntry(snapshot, Head(entries)), Tail(entries))

\* deriveStatusFromMachine(entries) evaluated at Date.now() = instant
deriveStatusFromMachine(entries, instant) ==
  LET replayed == replay(createActor, entries)
      final == sendAll(replayed, timeoutEvents(replayed, instant))
  IN  [status |-> final.value, context |-> final.context]

machineStatusToResult(machineStatus, context) ==
  [status |-> IF machineStatus = "working" THEN "working" ELSE "waiting",
   lastRole |-> "assistant",
   hasPendingToolUse |-> context.hasPendingToolUse,
   lastActivityAt |-> context.lastActivityAt,
   messageCount |-> context.messageCount]

(* status.ts *)

deriveStatus(entries, instant) ==
  LET derived == deriveStatusFromMachine(entries, instant)
  IN  machineStatusToResult(derived.status, derived.context)

statusChanged(prev, next) ==
  \/ prev.status # next.status
  \/ prev.lastRole # next.lastRole
  \/ prev.hasPendingToolUse # next.hasPendingToolUse

----------------------------------------------------------------------------
(* parser.ts: the log reader *)

Newline == [type |-> "newline", content |-> "none", blocks |-> <<>>, subtype |-> "", timestamp |-> NoTimestamp]
Garbage == [type |-> "garbage", content |-> "none", blocks |-> <<>>, subtype |-> "", timestamp |-> NoTimestamp]

\* JSON.parse of one line: a line holding exactly one well-formed payload is an entry
IsEntryLine(line) == Len(line) = 1 /\ line[1].type \notin {"newline", "garbage"}

\* The scan of the bytes after position i: line is the current unterminated
\* line, acc the entries parsed, pos the end of the last complete line.
RECURSIVE scanLines(_, _, _, _, _)
scanLines(content, i, line, acc, pos) ==
  IF i > Len(content) THEN [entries |-> acc, newPosition |-> pos]
  ELSE IF content[i].type = "newline"
    THEN scanLines(content, i + 1, <<>>,
                   IF IsEntryLine(line) THEN Append(acc, line[1]) ELSE acc, i)
  ELSE scanLines(content, i + 1, Append(line, content[i]), acc, pos)

\* tailJSONL(filepath, fromByte) on a file holding content
tailJSONL(content, fromByte) == scanLines(content, fromByte + 1, <<>>, <<>>, fromByte)

\* extractMetadata(entries): null unless a user entry gives prompt and start time
extractMetadata(entries) ==
  IF \E i \in 1..Len(entries) : entries[i].type = "user"
    THEN [gitBranch |-> "main"]
    ELSE [gitBranch |-> "null"]

HasMetadata(entries) == \E i \in 1..Len(entries) : entries[i].type = "user"

----------------------------------------------------------------------------
(* watcher.ts: SessionWatcher, for one session id *)

SID == "s1"

\* The caller's state: the offset it holds (pos), the offset it gave to its
\* last read (prev), the file's length at that read (len) and at the read
\* before (prevLen), the entries that read returned (last) and all entries
\* returned so far (entries).
NoReads == [pos |-> 0, prev |-> 0, len |-> 0, prevLen |-> 0, last |-> <<>>, entries |-> <<>>]

NoSessions == [id \in {} |-> 0]

SessionState(status, entries, bytePosition, gitBranch, branchChanged, permission, stop, ended) ==
  [status |-> status, entries |-> entries, bytePosition |-> bytePosition,
   gitBranch |-> gitBranch, branchChanged |-> branchChanged,
   pendingPermission |-> permission, hasStopSignal |-> stop, hasEndedSignal |-> ended]

\* The daemon's mutable state, gathered so that a handler is a function of it.
Daemon ==
  [sessions |-> sessions, pendingPermissions |-> pendingPermissions,
   stopSignals |-> stopSignals, endedSignals |-> endedSignals,
   sigFiles |-> sigFiles, passes |-> passes, emitted |-> <<>>, handled |-> handled]

Becomes(D) ==
  /\ sessions' = D.sessions
  /\ pendingPermissions' = D.pendingPermissions
  /\ stopSignals' = D.stopSignals
  /\ endedSignals' = D.endedSignals
  /\ sigFiles' = D.sigFiles
  /\ passes' = D.passes
  /\ emitted' = D.emitted
  /\ handled' = D.handled

SessionEvent(type, session, previousStatus) ==
  [type |-> type, session |-> session, previousStatus |-> previousStatus]

emit(D, event) == [D EXCEPT !.emitted = Append(@, event)]

\* An in-place write to the SessionState object held in the map; the passes
\* that captured this object as existingSession see the write too.
mutateSession(D, session) ==
  [D EXCEPT !.sessions = [id \in {SID} |-> session],
            !.passes = { IF p.exLive THEN [p EXCEPT !.ex = session] ELSE p : p \in @ }]

\* this.sessions.set / this.sessions.delete: the captured objects are no longer the map's
detach(passSet) == { [p EXCEPT !.exLive = FALSE] : p \in passSet }

\* handleSignalFile, lines 212-228: a permission signal
permissionSignal(D) ==
  LET session == D.sessions[SID]
      D1 == [D EXCEPT !.pendingPermissions = @ \cup {SID}, !.handled = "permission"]
      next == [session EXCEPT !.pendingPermission = TRUE,
                              !.status.status = "waiting",
                              !.status.hasPendingToolUse = TRUE]
  IN  IF SID \in DOMAIN D.sessions
        THEN emit(mutateSession(D1, next),
                  SessionEvent("updated", next, session.status))
        ELSE D1

\* The stop branch with the permission left in place.
stopSignalKeepsPermission(D) ==
  LET session == D.sessions[SID]
      D1 == [D EXCEPT !.stopSignals = @ \cup {SID}, !.handled = "stop"]
      next == [session EXCEPT !.hasStopSignal = TRUE,
                              !.status.status = "waiting",
                              !.status.hasPendingToolUse = FALSE]
  IN  IF SID \in DOMAIN D.sessions
        THEN emit(mutateSession(D1, next),
                  SessionEvent("updated", next, session.status))
        ELSE D1

\* The stop branch that also resets the message count.
stopSignalResetsCount(D) ==
  LET session == D.sessions[SID]
      D1 == [D EXCEPT !.stopSignals = @ \cup {SID},
                      !.pendingPermissions = @ \ {SID},
                      !.handled = "stop"]
      next == [session EXCEPT !.hasStopSignal = TRUE,
                              !.pendingPermission = FALSE,
                              !.status.status = "waiting",
                              !.status.hasPendingToolUse = FALSE,
                              !.status.messageCount = 0]
  IN  IF SID \in DOMAIN D.sessions
        THEN emit(mutateSession(D1, next),
                  SessionEvent("updated", next, session.status))
        ELSE D1

\* handleSignalFile, lines 229-249: a stop signal
stopSignal(D) ==
  LET session == D.sessions[SID]
      D1 == [D EXCEPT !.stopSignals = @ \cup {SID},
                      !.pendingPermissions = @ \ {SID},
                      !.handled = "stop"]
      next == [session EXCEPT !.hasStopSignal = TRUE,
                              !.pendingPermission = FALSE,
                              !.status.status = "waiting",
                              !.status.hasPendingToolUse = FALSE]
  IN  IF SID \in DOMAIN D.sessions
        THEN emit(mutateSession(D1, next),
                  SessionEvent("updated", next, session.status))
        ELSE D1

\* handleSignalFile, lines 250-271: an ended signal
endedSignal(D) ==
  LET session == D.sessions[SID]
      D1 == [D EXCEPT !.endedSignals = @ \cup {SID},
                      !.pendingPermissions = @ \ {SID},
                      !.stopSignals = @ \ {SID},
                      !.handled = "ended"]
      next == [session EXCEPT !.hasEndedSignal = TRUE,
                              !.hasStopSignal = FALSE,
                              !.pendingPermission = FALSE,
                              !.status.status = "idle",
                              !.status.hasPendingToolUse = FALSE]
  IN  IF SID \in DOMAIN D.sessions
        THEN emit(mutateSession(D1, next),
                  SessionEvent("updated", next, session.status))
        ELSE D1

\* handleSignalFile after readFile and JSON.parse succeeded (lines 212-271)
handleSignalFile(D, type) ==
  IF type = "permission" THEN permissionSignal(D)
  ELSE IF type = "stop" THEN stopSignal(D)
  ELSE endedSignal(D)

\* handleSignalRemoved (lines 280-309)
handleSignalRemoved(D, type) ==
  LET session == D.sessions[SID]
      live == SID \in DOMAIN D.sessions
  IN  IF type = "permission" THEN
        LET D1 == [D EXCEPT !.pendingPermissions = @ \ {SID}]
            next == [session EXCEPT !.pendingPermission = FALSE,
                                    !.status = deriveStatus(session.entries, now)]
        IN  IF live /\ session.pendingPermission
              THEN emit(mutateSession(D1, next),
                        SessionEvent("updated", next, session.status))
              ELSE D1
      ELSE IF type = "stop" THEN
        LET D1 == [D EXCEPT !.stopSignals = @ \ {SID}]
        IN  IF live THEN mutateSession(D1, [session EXCEPT !.hasStopSignal = FALSE])
            ELSE D1
      ELSE
        LET D1 == [D EXCEPT !.endedSignals = @ \ {SID}]
        IN  IF live THEN mutateSession(D1, [session EXCEPT !.hasEndedSignal = FALSE])
            ELSE D1

\* rm of a signal file whose unlink event is never handled.
removeSignalFileUnnoticed(D, type) == [D EXCEPT !.sigFiles[type] = FALSE]

\* rm of a signal file, and the unlink event the signal watcher then delivers
removeSignalFile(D, type) ==
  IF D.sigFiles[type]
    THEN handleSignalRemoved([D EXCEPT !.sigFiles[type] = FALSE], type)
    ELSE D

\* The sweep with its test inverted: it skips the sessions stored as working.
checkStaleSessionsSkipsWorking(D) ==
  LET session == D.sessions[SID]
      newStatus == deriveStatus(session.entries, now)
  IN  IF SID \notin DOMAIN D.sessions THEN D
      ELSE IF session.status.status = "working" THEN D
      ELSE IF statusChanged(session.status, newStatus)
        THEN emit(mutateSession(D, [session EXCEPT !.status = newStatus]),
                  SessionEvent("updated", [session EXCEPT !.status = newStatus],
                               session.status))
      ELSE D

\* The sweep without the test that skips sessions not stored as working.
checkStaleSessionsAll(D) ==
  LET session == D.sessions[SID]
      newStatus == deriveStatus(session.entries, now)
  IN  IF SID \notin DOMAIN D.sessions THEN D
      ELSE IF statusChanged(session.status, newStatus)
        THEN emit(mutateSession(D, [session EXCEPT !.status = newStatus]),
                  SessionEvent("updated", [session EXCEPT !.status = newStatus],
                               session.status))
      ELSE D

\* checkStaleSessions (lines 375-397)
checkStaleSessions(D) ==
  LET session == D.sessions[SID]
      newStatus == deriveStatus(session.entries, now)
  IN  IF SID \notin DOMAIN D.sessions THEN D
      ELSE IF session.status.status # "working" THEN D
      ELSE IF statusChanged(session.status, newStatus)
        THEN emit(mutateSession(D, [session EXCEPT !.status = newStatus]),
                  SessionEvent("updated", [session EXCEPT !.status = newStatus],
                               session.status))
      ELSE D

\* handleDelete (lines 575-586)
handleDelete(D) ==
  IF SID \in DOMAIN D.sessions
    THEN emit([D EXCEPT !.sessions = NoSessions, !.passes = detach(@)],
              SessionEvent("deleted", D.sessions[SID], D.sessions[SID].status))
    ELSE D

\* newEntries.some(user entry whose content array holds a tool_result block)
hasToolResult(newEntries) ==
  \E i \in 1..Len(newEntries) :
    /\ newEntries[i].type = "user" /\ newEntries[i].content = "array"
    /\ \E j \in 1..Len(newEntries[i].blocks) : newEntries[i].blocks[j].type = "tool_result"

\* newEntries.some(user entry whose content is a string)
hasUserPrompt(newEntries) ==
  \E i \in 1..Len(newEntries) :
    newEntries[i].type = "user" /\ newEntries[i].content = "string"

\* One handleFile call in flight: where it waits and the locals it holds.
\* Calls that agree on all of these behave alike and are kept as one.
Pass(eventType, stage, hadSession, exLive, ex, newEntries, newPosition, gitBranch, branchChanged) ==
  [eventType |-> eventType, stage |-> stage, hadSession |-> hadSession, exLive |-> exLive,
   ex |-> ex, newEntries |-> newEntries, newPosition |-> newPosition,
   gitBranch |-> gitBranch, branchChanged |-> branchChanged]

NoStatus == machineStatusToResult("waiting_for_input", initialContext)
NoExisting == SessionState(NoStatus, <<>>, 0, "null", FALSE, FALSE, FALSE, FALSE)

replacePass(D, p, q) == [D EXCEPT !.passes = (@ \ {p}) \cup {q}]
endPass(D, p) == [D EXCEPT !.passes = @ \ {p}]

\* handleFile, lines 511-565: derive the status, build the SessionState, store it, emit
storeSession(D, p) ==
  LET allEntries == IF p.hadSession THEN p.ex.entries \o p.newEntries ELSE p.newEntries
      derived == deriveStatus(allEntries, now)
      pendingPermission == SID \in D.pendingPermissions
      status == IF pendingPermission
                  THEN [derived EXCEPT !.status = "waiting", !.hasPendingToolUse = TRUE]
                  ELSE derived
      metadataBranch == IF p.hadSession THEN p.ex.gitBranch
                        ELSE extractMetadata(allEntries).gitBranch
      session == SessionState(status, allEntries, p.newPosition,
                   IF p.gitBranch # "null" THEN p.gitBranch ELSE metadataBranch,
                   p.branchChanged, pendingPermission,
                   SID \in D.stopSignals, SID \in D.endedSignals)
      hasStatusChange == statusChanged(p.ex.status, status)
      hasNewMessages == status.messageCount > p.ex.status.messageCount
      D1 == [D EXCEPT !.sessions = [id \in {SID} |-> session],
                      !.passes = detach(@ \ {p})]
  IN  IF ~p.hadSession
        THEN emit(D1, SessionEvent("created", session, status))
      ELSE IF hasStatusChange \/ hasNewMessages \/ p.branchChanged
        THEN emit(D1, SessionEvent("updated", session, p.ex.status))
      ELSE D1

\* handleFile, lines 497-509: a new user prompt clears the stop signal
afterPermissionCheck(D, p) ==
  IF hasUserPrompt(p.newEntries) /\ SID \in D.stopSignals
    THEN replacePass([D EXCEPT !.stopSignals = @ \ {SID}], p,
                     [p EXCEPT !.stage = "unlinkStop"])
    ELSE storeSession(D, p)

\* The pass that goes on to the stop check without looking at the permission.
afterGitInfoKeepsPermission(D, p) == afterPermissionCheck(D, p)

\* handleFile, lines 482-495: a new tool result clears the pending permission
afterGitInfo(D, p) ==
  IF hasToolResult(p.newEntries) /\ SID \in D.pendingPermissions
    THEN replacePass([D EXCEPT !.pendingPermissions = @ \ {SID}], p,
                     [p EXCEPT !.stage = "unlinkPermission"])
    ELSE afterPermissionCheck(D, p)

\* handleFile, lines 420-430: capture the existing session, start the read
startPass(D, eventType) ==
  LET live == SID \in DOMAIN D.sessions
  IN  [D EXCEPT !.passes = @ \cup
        { Pass(eventType, "read", live, live,
               IF live THEN D.sessions[SID] ELSE NoExisting,
               <<>>, 0, "null", FALSE) }]

\* The read that starts at offset 0 whatever the session holds.
afterReadFromStart(D, p, content) ==
  LET read == tailJSONL(content, 0)
  IN  IF read.entries = <<>> /\ p.hadSession THEN endPass(D, p)
      ELSE IF ~p.hadSession /\ ~HasMetadata(read.entries) THEN endPass(D, p)
      ELSE replacePass(D, p, [p EXCEPT !.stage = "git",
                                       !.newEntries = read.entries,
                                       !.newPosition = read.newPosition])

\* The read whose pass goes on without metadata.
afterReadWithoutMetadata(D, p, content) ==
  LET read == tailJSONL(content, IF p.hadSession THEN p.ex.bytePosition ELSE 0)
  IN  IF read.entries = <<>> /\ p.hadSession THEN endPass(D, p)
      ELSE replacePass(D, p, [p EXCEPT !.stage = "git",
                                       !.newEntries = read.entries,
                                       !.newPosition = read.newPosition])

\* handleFile, lines 427-469: the read returned; up to the git lookup
afterRead(D, p, content) ==
  LET read == tailJSONL(content, IF p.hadSession THEN p.ex.bytePosition ELSE 0)
  IN  IF read.entries = <<>> /\ p.hadSession THEN endPass(D, p)
      ELSE IF ~p.hadSession /\ ~HasMetadata(read.entries) THEN endPass(D, p)
      ELSE replacePass(D, p, [p EXCEPT !.stage = "git",
                                       !.newEntries = read.entries,
                                       !.newPosition = read.newPosition])

\* handleFile, lines 467-480: the git lookup returned branch
afterGitLookup(D, p, branch) ==
  LET q == IF p.hadSession
             THEN IF branch # p.ex.gitBranch
                    THEN [p EXCEPT !.gitBranch = branch, !.branchChanged = TRUE]
                    ELSE [p EXCEPT !.gitBranch = p.ex.gitBranch]
             ELSE [p EXCEPT !.gitBranch = branch]
  IN  afterGitInfo(replacePass(D, p, q), q)

----------------------------------------------------------------------------
(* The machine alone: any event sent in any state *)

Stamps == {StampOf(1), StampOf(2)}
IdLists == {<<"t1">>, <<"t2">>, <<"t1", "t2">>}

\* start() has returned and stop() has not been called: both watchers are
\* open and the interval timer is set (lines 110-170). No signal file was there
\* at start.
Started ==
  [phase |-> "started", stopped |-> FALSE, interval |-> TRUE, preexisting |-> {},
   scanned |-> TRUE, sigScanned |-> {}, toLoad |-> {}, awaiting |-> "none",
   callbacks |-> 0]

\* The paths of two log files.
Paths == {"a.jsonl", "b.jsonl"}

\* No timer: what debounceTimers.get returns for a path without one.
NoTimer == [path |-> "", due |-> 0]

\* No change event has arrived yet.
NoDebounce ==
  [clock |-> 0, timers |-> {},
   debounceTimers |-> [p \in Paths |-> NoTimer],
   changes |-> [p \in Paths |-> {}],
   started |-> [p \in Paths |-> <<>>]]

\* The watcher is not running.
WatcherOff ==
  /\ file = <<>> /\ fileState = "absent"
  /\ sessions = NoSessions
  /\ pendingPermissions = {} /\ stopSignals = {} /\ endedSignals = {}
  /\ sigFiles = [t \in {"permission", "stop", "ended"} |-> FALSE]
  /\ sigReads = {} /\ passes = {}
  /\ debounceTimer = FALSE
  /\ emitted = <<>>
  /\ handled = "none"
  /\ reader = NoReads
  /\ deletedTracked = FALSE
  /\ life = Started
  /\ debounce = NoDebounce

InitMachine ==
  /\ WatcherOff
  /\ now = 0
  /\ actor = machineDefinition
  /\ lastEvent = NoEvent
  /\ prevActor = machineDefinition
  /\ dEntries = <<>> /\ dPc = "off" /\ dIdx = 0 /\ dReplayed = machineDefinition
  /\ dSent = <<>> /\ dResult = machineDefinition /\ dRun = 0 /\ dFirst = machineDefinition

Send(event) ==
  /\ actor.context.messageCount < MaxCount
  /\ actor' = statusMachine(actor, event)
  /\ lastEvent' = event
  /\ prevActor' = actor
  /\ UNCHANGED <<now, deriveVars, watcherVars>>

SendUserPrompt == \E ts \in Stamps : Send(Event("USER_PROMPT", ts, <<>>))
SendToolResult == \E ts \in Stamps, ids \in IdLists : Send(Event("TOOL_RESULT", ts, ids))
SendAssistantStreaming == \E ts \in Stamps : Send(Event("ASSISTANT_STREAMING", ts, <<>>))
SendAssistantToolUse ==
  \E ts \in Stamps, ids \in IdLists : Send(Event("ASSISTANT_TOOL_USE", ts, ids))
SendTurnEnd == \E ts \in Stamps : Send(Event("TURN_END", ts, <<>>))
SendApprovalTimeout == Send(Event("APPROVAL_TIMEOUT", NoTimestamp, <<>>))
SendStaleTimeout == Send(Event("STALE_TIMEOUT", NoTimestamp, <<>>))

NextMachine ==
  \/ SendUserPrompt
  \/ SendToolResult
  \/ SendAssistantStreaming
  \/ SendAssistantToolUse
  \/ SendTurnEnd
  \/ SendApprovalTimeout
  \/ SendStaleTimeout

SpecMachine == InitMachine /\ [][NextMachine]_vars

----------------------------------------------------------------------------
(* deriveStatusFromMachine, statement by statement, called twice in a row *)

InitDerive ==
  /\ WatcherOff
  /\ now \in Instants
  /\ dEntries \in EntryLists
  /\ dPc = "create" /\ dRun = 1 /\ dIdx = 0
  /\ actor = machineDefinition
  /\ lastEvent = NoEvent
  /\ prevActor = machineDefinition
  /\ dReplayed = machineDefinition /\ dSent = <<>>
  /\ dResult = machineDefinition /\ dFirst = machineDefinition

\* lines 230-231
DeriveCreate ==
  /\ dPc = "create"
  /\ actor' = createActor
  /\ dIdx' = 1
  /\ dSent' = <<>>
  /\ dPc' = "loop"
  /\ UNCHANGED <<now, lastEvent, prevActor, dEntries, dReplayed, dResult, dRun, dFirst, watcherVars>>

\* lines 234-239, one iteration
DeriveLoop ==
  /\ dPc = "loop" /\ dIdx <= Len(dEntries)
  /\ actor' = sendEntry(actor, dEntries[dIdx])
  /\ lastEvent' = logEntryToEvent(dEntries[dIdx])
  /\ prevActor' = actor
  /\ dIdx' = dIdx + 1
  /\ UNCHANGED <<now, dEntries, dPc, dReplayed, dSent, dResult, dRun, dFirst, watcherVars>>

\* lines 242-261
DeriveTimeouts ==
  /\ dPc = "loop" /\ dIdx > Len(dEntries)
  /\ dReplayed' = actor
  /\ dSent' = timeoutEvents(actor, now)
  /\ actor' = sendAll(actor, timeoutEvents(actor, now))
  /\ dPc' = "return"
  /\ UNCHANGED <<now, lastEvent, prevActor, dEntries, dIdx, dResult, dRun, dFirst, watcherVars>>

\* lines 264-270
DeriveReturn ==
  /\ dPc = "return"
  /\ dResult' = actor
  /\ IF dRun = 1
       THEN dFirst' = actor /\ dRun' = 2 /\ dPc' = "create"
       ELSE dPc' = "done" /\ UNCHANGED <<dFirst, dRun>>
  /\ UNCHANGED <<now, actor, lastEvent, prevActor, dEntries, dIdx, dReplayed, dSent, watcherVars>>

NextDerive ==
  \/ DeriveCreate
  \/ DeriveLoop
  \/ DeriveTimeouts
  \/ DeriveReturn

SpecDerive == InitDerive /\ [][NextDerive]_vars

----------------------------------------------------------------------------
(* logEntryToEvent, applied to one entry *)

\* The blocks a user entry and an assistant entry are built from.
UserBlockKinds == {TextBlock, ImageBlock, ToolResult("t1"), ToolResult("t2")}
AssistantBlockKinds ==
  {TextBlock, ThinkingBlock, ToolUse("t1", "Bash"), ToolUse("t2", "Edit"), ToolUse("t3", "Read")}

BlockLists(kinds) == UNION { [1..n -> kinds] : n \in 1..MaxBlocks }

\* The entries the extraction is given, written at ts.
ExtractInputs ==
  UNION { {UserString(ts), QueueOperationEntry(ts)}
          \cup { UserBlocks(blocks, ts) : blocks \in BlockLists(UserBlockKinds) }
          \cup { AssistantBlocks(blocks, ts) : blocks \in BlockLists(AssistantBlockKinds) }
          \cup { SystemEntry(subtype, ts) :
                   subtype \in {"turn_duration", "stop_hook_summary", "api_error"} }
          : ts \in Stamps }

InitExtract ==
  /\ WatcherOff
  /\ now = 0
  /\ actor = machineDefinition
  /\ lastEvent = NoEvent
  /\ prevActor = machineDefinition
  /\ dEntries \in { <<entry>> : entry \in ExtractInputs }
  /\ dPc = "extract" /\ dIdx = 0 /\ dReplayed = machineDefinition
  /\ dSent = <<>> /\ dResult = machineDefinition /\ dRun = 0 /\ dFirst = machineDefinition

\* const event = logEntryToEvent(entry)
Extract ==
  /\ dPc = "extract"
  /\ lastEvent' = logEntryToEvent(dEntries[1])
  /\ dPc' = "extracted"
  /\ UNCHANGED <<now, actor, prevActor, dEntries, dIdx, dReplayed, dSent, dResult, dRun,
                 dFirst, watcherVars>>

NextExtract == Extract

SpecExtract == InitExtract /\ [][NextExtract]_vars

----------------------------------------------------------------------------
(* The watcher and its environment: the log writer, the hooks, the clock *)

\* The instants the clock of the watcher model takes.
Clock == {1000, 16001, 61001}

\* The entry shapes the log writer appends (see EntryShape).
WrittenShapes == {1, 2, 5, 8}

\* The branches the git lookup can return; "null" is no branch.
Branches == {"main", "dev", "null"}

SignalTypes == {"permission", "stop", "ended"}

PayloadCount(content) == Cardinality({ i \in 1..Len(content) : content[i].type # "newline" })
EndsWithNewline(content) ==
  IF content = <<>> THEN TRUE ELSE content[Len(content)].type = "newline"

\* The pass p as it is after handlers wrote to the session object it captured.
synced(D, p) == IF p.exLive THEN [p EXCEPT !.ex = D.sessions[SID]] ELSE p

Init ==
  /\ now = 1000
  /\ file = <<>> /\ fileState = "absent"
  /\ sessions = NoSessions
  /\ pendingPermissions = {} /\ stopSignals = {} /\ endedSignals = {}
  /\ sigFiles = [t \in SignalTypes |-> FALSE]
  /\ sigReads = {}
  /\ passes = {}
  /\ debounceTimer = FALSE
  /\ emitted = <<>>
  /\ handled = "none"
  /\ reader = NoReads
  /\ deletedTracked = FALSE
  /\ life = Started
  /\ debounce = NoDebounce
  /\ actor = machineDefinition /\ lastEvent = NoEvent /\ prevActor = machineDefinition
  /\ dEntries = <<>> /\ dPc = "off" /\ dIdx = 0 /\ dReplayed = machineDefinition
  /\ dSent = <<>> /\ dResult = machineDefinition /\ dRun = 0 /\ dFirst = machineDefinition

\* The file watcher's reaction to a write: "add" starts a pass at once (lines
\* 121-125), "change" goes through debouncedHandleFile (lines 126-129, 399-413).
fileWritten(D) ==
  IF fileState = "absent" THEN startPass(D, "add") ELSE D

Write(tokens) ==
  /\ fileState # "deleted"
  /\ fileState = "absent" => Cardinality(passes) < MaxPasses
  /\ file' = file \o tokens
  /\ fileState' = "present"
  /\ debounceTimer' = (debounceTimer \/ fileState = "present")
  /\ Becomes(fileWritten(Daemon))
  /\ UNCHANGED <<now, sigReads, machineVars, deriveVars, reader, deletedTracked, life, debounce>>

\* The session's process appends one complete line.
WriterAppendLine ==
  \E k \in WrittenShapes :
    /\ EndsWithNewline(file) /\ PayloadCount(file) < MaxLines
    /\ Write(<<EntryShape(k, now), Newline>>)

\* The session's process has flushed a line without its newline yet.
WriterAppendPartial ==
  \E k \in WrittenShapes :
    /\ EndsWithNewline(file) /\ PayloadCount(file) < MaxLines
    /\ Write(<<EntryShape(k, now)>>)

WriterCompleteLine ==
  /\ ~EndsWithNewline(file)
  /\ Write(<<Newline>>)

\* A line that is not valid JSON reaches the file.
WriterAppendMalformed ==
  /\ EndsWithNewline(file) /\ PayloadCount(file) < MaxLines
  /\ Write(<<Garbage, Newline>>)

\* The debounce timer fires (lines 407-410).
DebounceFire ==
  /\ debounceTimer
  /\ Cardinality(passes) < MaxPasses
  /\ debounceTimer' = FALSE
  /\ Becomes(startPass(Daemon, "change"))
  /\ UNCHANGED <<now, file, fileState, sigReads, machineVars, deriveVars, reader, deletedTracked, life, debounce>>

\* await tailJSONL returns, or throws ENOENT (lines 566-570).
PassRead ==
  \E p \in passes :
    /\ p.stage = "read"
    /\ Becomes(IF fileState = "present" THEN afterRead(Daemon, p, file)
               ELSE endPass(Daemon, p))
    /\ UNCHANGED <<now, file, fileState, sigReads, debounceTimer, machineVars, deriveVars, reader, deletedTracked, life, debounce>>

\* await getGitInfoCached returns.
PassGit ==
  \E p \in passes, branch \in Branches :
    /\ p.stage = "git"
    /\ Becomes(afterGitLookup(Daemon, p, branch))
    /\ UNCHANGED <<now, file, fileState, sigReads, debounceTimer, machineVars, deriveVars, reader, deletedTracked, life, debounce>>

\* await unlink in clearPendingPermission returns (lines 343-348).
PassUnlinkPermission ==
  \E p \in passes :
    /\ p.stage = "unlinkPermission"
    /\ LET D1 == removeSignalFile(Daemon, "permission")
       IN  Becomes(afterPermissionCheck(D1, synced(D1, p)))
    /\ UNCHANGED <<now, file, fileState, sigReads, debounceTimer, machineVars, deriveVars, reader, deletedTracked, life, debounce>>

\* await unlink in clearStopSignal returns (lines 359-363).
PassUnlinkStop ==
  \E p \in passes :
    /\ p.stage = "unlinkStop"
    /\ LET D1 == removeSignalFile(Daemon, "stop")
       IN  Becomes(storeSession(D1, synced(D1, p)))
    /\ UNCHANGED <<now, file, fileState, sigReads, debounceTimer, machineVars, deriveVars, reader, deletedTracked, life, debounce>>

\* The log file is removed: the watcher's unlink event (line 130).
LogUnlink ==
  /\ fileState = "present"
  /\ fileState' = "deleted"
  /\ Becomes(handleDelete(Daemon))
  /\ deletedTracked' = (SID \in DOMAIN sessions)
  /\ UNCHANGED <<now, file, sigReads, debounceTimer, machineVars, deriveVars, reader, life, debounce>>

\* The signal watcher's add/change event: handleSignalFile starts its readFile.
signalWritten(D, type) == [D EXCEPT !.sigFiles[type] = TRUE]

\* permission-request.sh
HookPermission ==
  /\ Cardinality(sigReads) < MaxReads
  /\ sigReads' = sigReads \cup {[type |-> "permission", stage |-> "reading"]}
  /\ Becomes(signalWritten(Daemon, "permission"))
  /\ UNCHANGED <<now, file, fileState, debounceTimer, machineVars, deriveVars, reader, deletedTracked, life, debounce>>

\* stop.sh: write the stop signal, remove the permission signal
HookStop ==
  /\ Cardinality(sigReads) < MaxReads
  /\ sigReads' = sigReads \cup {[type |-> "stop", stage |-> "reading"]}
  /\ Becomes(removeSignalFile(signalWritten(Daemon, "stop"), "permission"))
  /\ UNCHANGED <<now, file, fileState, debounceTimer, machineVars, deriveVars, reader, deletedTracked, life, debounce>>

\* session-end.sh: write the ended signal, remove the other two
HookSessionEnd ==
  /\ Cardinality(sigReads) < MaxReads
  /\ sigReads' = sigReads \cup {[type |-> "ended", stage |-> "reading"]}
  /\ Becomes(removeSignalFile(removeSignalFile(signalWritten(Daemon, "ended"),
                                               "permission"), "stop"))
  /\ UNCHANGED <<now, file, fileState, debounceTimer, machineVars, deriveVars, reader, deletedTracked, life, debounce>>

\* The ended signal file is cleaned up from outside.
CleanupEnded ==
  /\ sigFiles["ended"]
  /\ Becomes(removeSignalFile(Daemon, "ended"))
  /\ UNCHANGED <<now, file, fileState, sigReads, debounceTimer, machineVars, deriveVars, reader, deletedTracked, life, debounce>>

\* readFile of a signal file completes, or throws because the file is gone (line 209).
SignalRead ==
  \E r \in sigReads :
    /\ r.stage = "reading"
    /\ sigReads' = IF sigFiles[r.type]
                     THEN (sigReads \ {r}) \cup {[r EXCEPT !.stage = "data"]}
                     ELSE sigReads \ {r}
    /\ emitted' = <<>>
    /\ UNCHANGED <<now, file, fileState, sessions, pendingPermissions, stopSignals,
                   endedSignals, sigFiles, passes, debounceTimer, handled,
                   machineVars, deriveVars, reader, deletedTracked, life, debounce>>

\* handleSignalFile resumes with the parsed content (lines 210-271).
SignalApply ==
  \E r \in sigReads :
    /\ r.stage = "data"
    /\ sigReads' = sigReads \ {r}
    /\ Becomes(handleSignalFile(Daemon, r.type))
    /\ UNCHANGED <<now, file, fileState, debounceTimer, machineVars, deriveVars, reader, deletedTracked, life, debounce>>

\* The stale-check interval fires (lines 167-169).
Sweep ==
  /\ Becomes(checkStaleSessions(Daemon))
  /\ UNCHANGED <<now, file, fileState, sigReads, debounceTimer, machineVars, deriveVars, reader, deletedTracked, life, debounce>>

Tick ==
  /\ \E t \in Clock : t > now
  /\ now' = CHOOSE t \in Clock : t > now /\ \A u \in Clock : u > now => t <= u
  /\ emitted' = <<>>
  /\ UNCHANGED <<file, fileState, sessions, pendingPermissions, stopSignals, endedSignals,
                 sigFiles, sigReads, passes, debounceTimer, handled, machineVars, deriveVars, reader, deletedTracked, life, debounce>>

\* The clock passes the staleness threshold of the entries written so far.
TickStale ==
  /\ now = 1000
  /\ now' = 61001
  /\ emitted' = <<>>
  /\ UNCHANGED <<file, fileState, sessions, pendingPermissions, stopSignals, endedSignals,
                 sigFiles, sigReads, passes, debounceTimer, handled, machineVars, deriveVars, reader, deletedTracked, life, debounce>>

\* The debounce timer fires after the previous pass has finished.
DebounceFireIdle == passes = {} /\ DebounceFire

\* await getGitInfoCached returns the branch the session was created on.
PassGitMain ==
  \E p \in passes :
    /\ p.stage = "git"
    /\ Becomes(afterGitLookup(Daemon, p, "main"))
    /\ UNCHANGED <<now, file, fileState, sigReads, debounceTimer, machineVars, deriveVars, reader, deletedTracked, life, debounce>>

(* The log side: the writer, overlapping passes, the unlink, the sweep *)
NextLog ==
  \/ WriterAppendLine
  \/ WriterAppendPartial
  \/ WriterCompleteLine
  \/ WriterAppendMalformed
  \/ DebounceFire
  \/ PassRead
  \/ PassGit
  \/ LogUnlink
  \/ Sweep
  \/ Tick

SpecLog == Init /\ [][NextLog]_vars

(* The signal side: the hooks, the signal reads, and the passes they meet *)
Next ==
  \/ WriterAppendLine
  \/ DebounceFireIdle
  \/ PassRead
  \/ PassGitMain
  \/ PassUnlinkPermission
  \/ PassUnlinkStop
  \/ HookPermission
  \/ HookStop
  \/ HookSessionEnd
  \/ CleanupEnded
  \/ SignalRead
  \/ SignalApply
  \/ Sweep
  \/ TickStale

Spec == Init /\ [][Next]_vars

(* The log side with reads that fail: the file is momentarily missing or
   locked when a pass reads it *)

\* The error codes a failed read rejects with: file not found, file locked.
ReadErrors == {"ENOENT", "EBUSY"}

\* this.emit("error", error)
ErrorEvent == [type |-> "error", session |-> NoExisting, previousStatus |-> NoStatus]

\* handleFile, lines 566-572: the catch block, entered from await tailJSONL
readFailed(D, p, code) ==
  IF code = "ENOENT" THEN endPass(D, p) ELSE emit(endPass(D, p), ErrorEvent)

\* await tailJSONL rejects although the file is there again a moment later.
PassReadFails ==
  \E p \in passes, code \in ReadErrors :
    /\ p.stage = "read"
    /\ fileState = "present"
    /\ Becomes(readFailed(Daemon, p, code))
    /\ UNCHANGED <<now, file, fileState, sigReads, debounceTimer, machineVars, deriveVars,
                   reader, deletedTracked, life, debounce>>

\* A change event after the failure: the next natural trigger.
Retrigger ==
  /\ fileState = "present"
  /\ ~debounceTimer
  /\ Becomes(Daemon)
  /\ debounceTimer' = TRUE
  /\ UNCHANGED <<now, file, fileState, sigReads, machineVars, deriveVars, reader,
                 deletedTracked, life, debounce>>

NextFail ==
  \/ WriterAppendLine
  \/ WriterAppendPartial
  \/ WriterCompleteLine
  \/ DebounceFireIdle
  \/ PassRead
  \/ PassReadFails
  \/ PassGitMain
  \/ Retrigger

SpecFail == Init /\ [][NextFail]_vars

(* The sweep on a session whose log has gone quiet: the writer writes only
   at the first instant, the interval timer keeps firing, time passes *)

\* The session's process appends a line; it stops when the clock has moved on.
WriterAppendEarly == now = 1000 /\ WriterAppendLine

NextSweep ==
  \/ WriterAppendEarly
  \/ DebounceFireIdle
  \/ PassRead
  \/ PassGitMain
  \/ Sweep
  \/ Tick

\* A call of checkStaleSessions would change the state: it replaces the
\* session's status or clears the events of the step before.
SweepDue == emitted # <<>> \/ checkStaleSessions(Daemon).sessions # sessions

\* setInterval keeps calling checkStaleSessions: weak fairness of Sweep, with
\* its enabling condition written as the state predicate SweepDue.
SweepFair == []<>(~SweepDue) \/ []<><<Sweep>>_vars

\* The interval timer keeps firing and the clock advances.
SpecSweep == Init /\ [][NextSweep]_vars /\ SweepFair /\ WF_vars(Tick)

(* start() and stop(): the log file and a signal file are there before the
   daemon starts; stop() may be called at any point after start() was *)

\* most timer and interval callbacks counted
MaxCallbacks == 2

\* The signal files a session can have left behind: none, or one.
PreexistingSignals == {{}, {"permission"}, {"stop"}, {"ended"}}

\* The log file as it is before the daemon starts: a prompt, or a prompt and
\* a tool call.
PreexistingLogs ==
  { <<EntryShape(1, 1000), Newline>>,
    <<EntryShape(1, 1000), Newline, EntryShape(5, 1000), Newline>> }

\* The SessionWatcher after its constructor (lines 67-80), with the files on disk.
InitLife ==
  \E pre \in PreexistingSignals, log \in PreexistingLogs :
    /\ now = 1000
    /\ file = log /\ fileState = "present"
    /\ sessions = NoSessions
    /\ pendingPermissions = {} /\ stopSignals = {} /\ endedSignals = {}
    /\ sigFiles = [t \in SignalTypes |-> t \in pre]
    /\ sigReads = {}
    /\ passes = {}
    /\ debounceTimer = FALSE
    /\ emitted = <<>>
    /\ handled = "none"
    /\ reader = NoReads
    /\ deletedTracked = FALSE
    /\ life = [phase |-> "constructed", stopped |-> FALSE, interval |-> FALSE,
               preexisting |-> pre, scanned |-> FALSE, sigScanned |-> {},
               toLoad |-> {}, awaiting |-> "none", callbacks |-> 0]
    /\ debounce = NoDebounce
    /\ actor = machineDefinition /\ lastEvent = NoEvent /\ prevActor = machineDefinition
    /\ dEntries = <<>> /\ dPc = "off" /\ dIdx = 0 /\ dReplayed = machineDefinition
    /\ dSent = <<>> /\ dResult = machineDefinition /\ dRun = 0 /\ dFirst = machineDefinition

\* Both watchers are open: start() has created them and stop() has not closed them.
Watching == life.phase # "constructed" /\ ~life.stopped

\* start() up to its first await (lines 110-159): the watchers are created,
\* start() waits for the log watcher's ready event.
StartCalled ==
  /\ life.phase = "constructed"
  /\ life' = [life EXCEPT !.phase = "scanning"]
  /\ Becomes(Daemon)
  /\ UNCHANGED <<now, file, fileState, sigReads, debounceTimer, machineVars, deriveVars,
                 reader, deletedTracked, debounce>>

\* The log watcher's initial scan finds the log file: its add event (lines 121-125).
ScanAdd ==
  /\ Watching /\ ~life.scanned
  /\ life' = [life EXCEPT !.scanned = TRUE]
  /\ Becomes(startPass(Daemon, "add"))
  /\ UNCHANGED <<now, file, fileState, sigReads, debounceTimer, machineVars, deriveVars,
                 reader, deletedTracked, debounce>>

\* The signal watcher's initial scan finds a signal file: its add event
\* (lines 140-143) calls handleSignalFile, which starts its readFile.
ScanSignal ==
  \E type \in life.preexisting \ life.sigScanned :
    /\ Watching /\ sigFiles[type]
    /\ Cardinality(sigReads) < MaxReads
    /\ life' = [life EXCEPT !.sigScanned = @ \cup {type}]
    /\ sigReads' = sigReads \cup {[type |-> type, stage |-> "reading"]}
    /\ Becomes(Daemon)
    /\ UNCHANGED <<now, file, fileState, debounceTimer, machineVars, deriveVars,
                   reader, deletedTracked, debounce>>

\* The log watcher's ready event, after its add events (lines 156-159): start()
\* resumes and calls loadExistingSignals, which awaits readdir (line 177).
Ready ==
  /\ Watching /\ life.phase = "scanning" /\ life.scanned
  /\ life' = [life EXCEPT !.phase = "readdir"]
  /\ Becomes(Daemon)
  /\ UNCHANGED <<now, file, fileState, sigReads, debounceTimer, machineVars, deriveVars,
                 reader, deletedTracked, debounce>>

\* readdir returns the signal files there are (line 177).
ReaddirReturns ==
  /\ life.phase = "readdir"
  /\ life' = [life EXCEPT !.phase = "loading",
                          !.toLoad = {t \in SignalTypes : sigFiles[t]}]
  /\ Becomes(Daemon)
  /\ UNCHANGED <<now, file, fileState, sigReads, debounceTimer, machineVars, deriveVars,
                 reader, deletedTracked, debounce>>

\* The loop of loadExistingSignals calls handleSignalFile for the next file
\* and awaits it (lines 178-182); handleSignalFile awaits readFile.
LoadRead ==
  \E type \in life.toLoad :
    /\ life.phase = "loading" /\ life.awaiting = "none"
    /\ life' = [life EXCEPT !.toLoad = @ \ {type}, !.awaiting = type]
    /\ Becomes(Daemon)
    /\ UNCHANGED <<now, file, fileState, sigReads, debounceTimer, machineVars, deriveVars,
                   reader, deletedTracked, debounce>>

\* readFile returns and handleSignalFile applies the signal, or readFile
\* throws because the file is gone (lines 209-274).
LoadApply ==
  /\ life.awaiting # "none"
  /\ life' = [life EXCEPT !.awaiting = "none"]
  /\ Becomes(IF sigFiles[life.awaiting] THEN handleSignalFile(Daemon, life.awaiting)
             ELSE Daemon)
  /\ UNCHANGED <<now, file, fileState, sigReads, debounceTimer, machineVars, deriveVars,
                 reader, deletedTracked, debounce>>

\* loadExistingSignals has returned: start() sets the interval (lines 165-169).
LoadDone ==
  /\ life.phase = "loading" /\ life.toLoad = {} /\ life.awaiting = "none"
  /\ life' = [life EXCEPT !.phase = "started", !.interval = TRUE]
  /\ Becomes(Daemon)
  /\ UNCHANGED <<now, file, fileState, sigReads, debounceTimer, machineVars, deriveVars,
                 reader, deletedTracked, debounce>>

\* stop() (lines 311-333): close the watchers, clear the interval if it is
\* set, clear the debounce timers.
StopCalled ==
  /\ Watching
  /\ life' = [life EXCEPT !.stopped = TRUE, !.interval = FALSE]
  /\ debounceTimer' = FALSE
  /\ Becomes(Daemon)
  /\ UNCHANGED <<now, file, fileState, sigReads, machineVars, deriveVars,
                 reader, deletedTracked, debounce>>

\* The session's process appends a line; an open log watcher that has seen
\* the file delivers a change event (lines 126-129).
LifeWrite ==
  \E k \in WrittenShapes :
    /\ PayloadCount(file) < MaxLines
    /\ file' = file \o <<EntryShape(k, now), Newline>>
    /\ debounceTimer' = (debounceTimer \/ (Watching /\ life.scanned))
    /\ Becomes(Daemon)
    /\ UNCHANGED <<now, fileState, sigReads, machineVars, deriveVars,
                   reader, deletedTracked, life, debounce>>

\* The debounce timer's callback runs (lines 407-410).
TimerCallback ==
  /\ debounceTimer
  /\ life.callbacks < MaxCallbacks
  /\ Cardinality(passes) < MaxPasses
  /\ debounceTimer' = FALSE
  /\ life' = [life EXCEPT !.callbacks = @ + 1]
  /\ Becomes(startPass(Daemon, "change"))
  /\ UNCHANGED <<now, file, fileState, sigReads, machineVars, deriveVars,
                 reader, deletedTracked, debounce>>

\* The interval's callback runs (lines 167-169).
IntervalCallback ==
  /\ life.interval
  /\ life.callbacks < MaxCallbacks
  /\ life' = [life EXCEPT !.callbacks = @ + 1]
  /\ Becomes(checkStaleSessions(Daemon))
  /\ UNCHANGED <<now, file, fileState, sigReads, debounceTimer, machineVars, deriveVars,
                 reader, deletedTracked, debounce>>

NextLife ==
  \/ StartCalled
  \/ ScanAdd
  \/ ScanSignal
  \/ Ready
  \/ ReaddirReturns
  \/ LoadRead
  \/ LoadApply
  \/ LoadDone
  \/ StopCalled
  \/ LifeWrite
  \/ TimerCallback
  \/ IntervalCallback
  \/ PassRead
  \/ PassGitMain
  \/ PassUnlinkPermission
  \/ PassUnlinkStop
  \/ SignalRead
  \/ SignalApply

SpecLife == InitLife /\ [][NextLife]_vars

(* loadExistingSignals on a directory that holds files it cannot use *)

\* most files in the signals directory at startup
MaxBatch == 2

\* The names readdir can return for the session: its three signal files and
\* a .json file whose name parseSignalFilename does not match.
FileNames == SignalTypes \cup {"other"}

\* What readFile and JSON.parse make of a file: parsed, a SyntaxError, or a
\* rejected read.
FileContents == {"json", "garbage", "unreadable"}

NoFile == [name |-> "none", content |-> "none"]

\* The directory listings: files with distinct names, in any order.
Batches ==
  { b \in UNION { [1..n -> [name : FileNames, content : FileContents]] : n \in 0..MaxBatch } :
      \A i, j \in 1..Len(b) : i # j => b[i].name # b[j].name }

\* The session the initial scan has created from a log of one prompt.
ScannedSession ==
  SessionState(deriveStatus(<<UserString(1000)>>, 1000), <<UserString(1000)>>, 2,
               "main", FALSE, FALSE, FALSE, FALSE)

\* start() has reached loadExistingSignals and readdir has returned (line 177).
InitBatch ==
  \E batch \in Batches, tracked \in BOOLEAN :
    /\ now = 1000
    /\ file = <<UserString(1000), Newline>> /\ fileState = "present"
    /\ sessions = IF tracked THEN [id \in {SID} |-> ScannedSession] ELSE NoSessions
    /\ pendingPermissions = {} /\ stopSignals = {} /\ endedSignals = {}
    /\ sigFiles = [t \in SignalTypes |-> \E i \in 1..Len(batch) : batch[i].name = t]
    /\ sigReads = {}
    /\ passes = {}
    /\ debounceTimer = FALSE
    /\ emitted = <<>>
    /\ handled = "none"
    /\ reader = NoReads
    /\ deletedTracked = FALSE
    /\ life = [phase |-> "loading", stopped |-> FALSE, interval |-> FALSE,
               batch |-> batch, toLoad |-> batch, awaiting |-> NoFile, done |-> <<>>]
    /\ debounce = NoDebounce
    /\ actor = machineDefinition /\ lastEvent = NoEvent /\ prevActor = machineDefinition
    /\ dEntries = <<>> /\ dPc = "off" /\ dIdx = 0 /\ dReplayed = machineDefinition
    /\ dSent = <<>> /\ dResult = machineDefinition /\ dRun = 0 /\ dFirst = machineDefinition

\* parseSignalFilename (lines 192-197)
parseSignalFilename(name) == IF name \in SignalTypes THEN name ELSE "null"

\* handleSignalFile without its try/catch: a failed read or parse rejects the call.
handleSignalFileOfUncaught(D, signalFile) ==
  IF parseSignalFilename(signalFile.name) = "null"
    THEN [daemon |-> D, threw |-> FALSE]
  ELSE IF signalFile.content # "json"
    THEN [daemon |-> D, threw |-> TRUE]
  ELSE [daemon |-> handleSignalFile(D, signalFile.name), threw |-> FALSE]

\* handleSignalFile on a file of the directory (lines 202-275): no match of
\* the name returns at once, a failed readFile or JSON.parse is caught and
\* ignored; threw tells whether the call rejected.
handleSignalFileOf(D, signalFile) ==
  IF parseSignalFilename(signalFile.name) = "null"
    THEN [daemon |-> D, threw |-> FALSE]
  ELSE IF signalFile.content # "json"
    THEN [daemon |-> D, threw |-> FALSE]
  ELSE [daemon |-> handleSignalFile(D, signalFile.name), threw |-> FALSE]

\* The loop of loadExistingSignals calls handleSignalFile for the next file
\* and awaits it (lines 178-182).
BatchNext ==
  /\ life.phase = "loading" /\ life.awaiting = NoFile /\ life.toLoad # <<>>
  /\ life' = [life EXCEPT !.awaiting = Head(life.toLoad), !.toLoad = Tail(life.toLoad)]
  /\ Becomes(Daemon)
  /\ UNCHANGED <<now, file, fileState, sigReads, debounceTimer, machineVars, deriveVars,
                 reader, deletedTracked, debounce>>

\* The awaited call settles; a rejection would leave the loop through the
\* catch of loadExistingSignals (lines 183-185).
BatchSettles ==
  /\ life.awaiting # NoFile
  /\ LET settled == handleSignalFileOf(Daemon, life.awaiting)
     IN  /\ Becomes(settled.daemon)
         /\ life' = IF settled.threw
                      THEN [life EXCEPT !.awaiting = NoFile, !.phase = "started",
                                        !.interval = TRUE]
                      ELSE [life EXCEPT !.awaiting = NoFile,
                                        !.done = Append(@, life.awaiting)]
  /\ UNCHANGED <<now, file, fileState, sigReads, debounceTimer, machineVars, deriveVars,
                 reader, deletedTracked, debounce>>

\* The loop is over: loadExistingSignals returns, start() sets the interval.
BatchDone ==
  /\ life.phase = "loading" /\ life.awaiting = NoFile /\ life.toLoad = <<>>
  /\ life' = [life EXCEPT !.phase = "started", !.interval = TRUE]
  /\ Becomes(Daemon)
  /\ UNCHANGED <<now, file, fileState, sigReads, debounceTimer, machineVars, deriveVars,
                 reader, deletedTracked, debounce>>

NextBatch ==
  \/ BatchNext
  \/ BatchSettles
  \/ BatchDone

SpecBatch == InitBatch /\ [][NextBatch]_vars

(* The debounce of change events: two paths, a clock in steps of 100 ms *)

\* the number of 100 ms steps the clock takes
MaxTicks == 5

\* the default of the constructor's debounceMs option (line 79)
debounceMs == 200

\* debouncedHandleFile without clearTimeout: the path's earlier timer stays set.
debouncedHandleFileKeepsTimer(B, filepath) ==
  LET timer == [path |-> filepath, due |-> B.clock + debounceMs]
  IN  [B EXCEPT !.timers = @ \cup {timer},
                !.debounceTimers[filepath] = timer,
                !.changes[filepath] = @ \cup {B.clock}]

\* debouncedHandleFile (lines 399-413): clear the path's timer, set a new one.
\* changes records the instant of the call.
debouncedHandleFile(B, filepath) ==
  LET existing == B.debounceTimers[filepath]
      timer == [path |-> filepath, due |-> B.clock + debounceMs]
  IN  [B EXCEPT !.timers = (@ \ {existing}) \cup {timer},
                !.debounceTimers[filepath] = timer,
                !.changes[filepath] = @ \cup {B.clock}]

\* The timer's callback (lines 407-410): delete the path's map entry and call
\* handleFile(filepath, "change"); started records the instant of the call.
timerCallback(B, timer) ==
  [B EXCEPT !.timers = @ \ {timer},
            !.debounceTimers[timer.path] = NoTimer,
            !.started[timer.path] = Append(@, B.clock)]

\* The log watcher's change event for a path (lines 126-129).
Change ==
  \E filepath \in Paths :
    /\ debounce' = debouncedHandleFile(debounce, filepath)
    /\ UNCHANGED <<now, machineVars, deriveVars, file, fileState, sessions,
                   pendingPermissions, stopSignals, endedSignals, sigFiles, sigReads,
                   passes, debounceTimer, emitted, handled, reader, deletedTracked, life>>

\* A timer that is due fires.
TimerFires ==
  \E timer \in debounce.timers :
    /\ timer.due = debounce.clock
    /\ debounce' = timerCallback(debounce, timer)
    /\ UNCHANGED <<now, machineVars, deriveVars, file, fileState, sessions,
                   pendingPermissions, stopSignals, endedSignals, sigFiles, sigReads,
                   passes, debounceTimer, emitted, handled, reader, deletedTracked, life>>

\* 100 ms pass; the timers that were due have fired.
ClockAdvance ==
  /\ debounce.clock < MaxTicks * 100
  /\ \A timer \in debounce.timers : timer.due > debounce.clock
  /\ debounce' = [debounce EXCEPT !.clock = @ + 100]
  /\ UNCHANGED <<now, machineVars, deriveVars, file, fileState, sessions,
                 pendingPermissions, stopSignals, endedSignals, sigFiles, sigReads,
                 passes, debounceTimer, emitted, handled, reader, deletedTracked, life>>

NextDebounce ==
  \/ Change
  \/ TimerFires
  \/ ClockAdvance

SpecDebounce == Init /\ [][NextDebounce]_vars

(* The reader alone: a caller that tails the file offset after offset, as
   the test "should handle incremental reads" does *)

\* The caller after tailJSONL(file, offset it holds) on a file holding content
nextReadFromStart(rd, content) ==
  LET r == tailJSONL(content, 0)
  IN  [pos |-> r.newPosition, prev |-> 0, len |-> Len(content), prevLen |-> rd.len,
       last |-> r.entries, entries |-> rd.entries \o r.entries]

nextReadToEnd(rd, content) ==
  LET r == tailJSONL(content, rd.pos)
  IN  [pos |-> Len(content), prev |-> rd.pos, len |-> Len(content), prevLen |-> rd.len,
       last |-> r.entries, entries |-> rd.entries \o r.entries]

nextRead(rd, content) ==
  LET r == tailJSONL(content, rd.pos)
  IN  [pos |-> r.newPosition, prev |-> rd.pos, len |-> Len(content), prevLen |-> rd.len,
       last |-> r.entries, entries |-> rd.entries \o r.entries]

InitReader == Init

\* writeFile / appendFile: the bytes reach the file, nobody watches it
Appended(tokens) ==
  /\ file' = file \o tokens
  /\ fileState' = "present"
  /\ UNCHANGED <<now, sessions, pendingPermissions, stopSignals, endedSignals, sigFiles,
                 sigReads, passes, debounceTimer, emitted, handled, reader,
                 machineVars, deriveVars, deletedTracked, life, debounce>>

AppendLine ==
  \E k \in WrittenShapes :
    /\ EndsWithNewline(file) /\ PayloadCount(file) < MaxLines
    /\ Appended(<<EntryShape(k, now), Newline>>)

AppendPartial ==
  \E k \in WrittenShapes :
    /\ EndsWithNewline(file) /\ PayloadCount(file) < MaxLines
    /\ Appended(<<EntryShape(k, now)>>)

CompleteLine ==
  /\ ~EndsWithNewline(file)
  /\ Appended(<<Newline>>)

AppendMalformed ==
  /\ EndsWithNewline(file) /\ PayloadCount(file) < MaxLines
  /\ Appended(<<Garbage, Newline>>)

\* const { entries, newPosition } = await tailJSONL(TEST_LOG_FILE, pos)
ReadTail ==
  /\ fileState = "present"
  /\ reader' = nextRead(reader, file)
  /\ UNCHANGED <<now, file, fileState, sessions, pendingPermissions, stopSignals,
                 endedSignals, sigFiles, sigReads, passes, debounceTimer, emitted, handled,
                 machineVars, deriveVars, deletedTracked, life, debounce>>

NextReader ==
  \/ AppendLine
  \/ AppendPartial
  \/ CompleteLine
  \/ AppendMalformed
  \/ ReadTail

SpecReader == InitReader /\ [][NextReader]_vars

----------------------------------------------------------------------------
(* Properties of the deriver and of the machine *)

\* Time elapsed between the last activity the replay recorded and now.
ReplayedElapsed == now - dReplayed.context.lastActivityAt

ReturnedResult == machineStatusToResult(actor.value, actor.context)

C8_StaleTimeout ==
  /\ Len(dSent) <= 1
  /\ (dPc = "return" /\ dReplayed.value = "working" /\ ~dReplayed.context.hasPendingToolUse)
       => IF ReplayedElapsed > 60000
            THEN /\ actor.value = "waiting_for_input"
                 /\ ReturnedResult.status = "waiting"
                 /\ ~ReturnedResult.hasPendingToolUse
            ELSE /\ actor.value = "working"
                 /\ ReturnedResult.status = "working"
                 /\ ~ReturnedResult.hasPendingToolUse

C8_Witness ==
  /\ dPc = "return" /\ dReplayed.value = "working" /\ ~dReplayed.context.hasPendingToolUse
  /\ ReplayedElapsed = 60001
  /\ actor.value = "waiting_for_input"
  /\ dSent = <<Event("STALE_TIMEOUT", NoTimestamp, <<>>)>>

Unresolved(pending, event) ==
  { pending[i] : i \in { j \in 1..Len(pending) : ~InSeq(pending[j], event.toolUseIds) } }

SeqSet(s) == { s[i] : i \in 1..Len(s) }

\* One row of the transition table of section 4.2: in state from, the event
\* of type type moves the machine to state to.
RowTaken(from, type) == prevActor.value = from /\ lastEvent.type = type

BumpsTime == actor.context.lastActivityAt = lastEvent.timestamp
KeepsTime == actor.context.lastActivityAt = prevActor.context.lastActivityAt
BumpsCount == actor.context.messageCount = prevActor.context.messageCount + 1
KeepsCount == actor.context.messageCount = prevActor.context.messageCount
ClearsPending ==
  ~actor.context.hasPendingToolUse /\ actor.context.pendingToolIds = <<>>
KeepsPending ==
  /\ actor.context.hasPendingToolUse = prevActor.context.hasPendingToolUse
  /\ actor.context.pendingToolIds = prevActor.context.pendingToolIds
RecomputesPending ==
  /\ SeqSet(actor.context.pendingToolIds)
       = Unresolved(prevActor.context.pendingToolIds, lastEvent)
  /\ actor.context.hasPendingToolUse = (actor.context.pendingToolIds # <<>>)

----------------------------------------------------------------------------
(* Properties of the watcher *)

Live == SID \in DOMAIN sessions

\* C1: while the session stays in the map, no step lowers its stored
\* bytePosition, whatever passes overlap.
C1_BytePositionMonotone ==
  [][(SID \in DOMAIN sessions /\ SID \in DOMAIN sessions')
       => sessions'[SID].bytePosition >= sessions[SID].bytePosition]_vars

\* C2: a handleFile pass for the session begins only when no other pass for
\* it is in flight, so at most one pass is ever in flight.
C2_PassesSerialized == Cardinality(passes) <= 1

\* The entries of the log file's first offset tokens, parsed from offset 0.
ParsedUpTo(offset) == tailJSONL(SubSeq(file, 1, offset), 0).entries

\* C3: at every moment the entries stored for the session are the entries
\* parsed from offset 0 of its log file up to the stored bytePosition.
C3_EntriesMatchFile ==
  Live =>
    /\ sessions[SID].bytePosition <= Len(file)
    /\ sessions[SID].entries = ParsedUpTo(sessions[SID].bytePosition)

\* An update pass has just appended the second entry to a session it found in the map.
C3_Witness ==
  /\ Live
  /\ Len(sessions[SID].entries) = 2
  /\ emitted # <<>>
  /\ emitted[1].type = "updated"
  /\ emitted[1].session.status.messageCount > emitted[1].previousStatus.messageCount

StopOverride ==
  /\ Live
  /\ SID \in stopSignals /\ sessions[SID].hasStopSignal
  /\ ~sessions[SID].hasEndedSignal
  /\ sessions[SID].status.status = "waiting"
  /\ ~sessions[SID].status.hasPendingToolUse

EndedOverride ==
  /\ Live
  /\ SID \in endedSignals /\ sessions[SID].hasEndedSignal
  /\ sessions[SID].status.status = "idle"
  /\ ~sessions[SID].status.hasPendingToolUse

StopHeld ==
  /\ Live
  /\ SID \in stopSignals /\ sessions[SID].hasStopSignal
  /\ ~sessions[SID].hasEndedSignal

EndedHeld == Live /\ SID \in endedSignals /\ sessions[SID].hasEndedSignal

\* C4: once a stop (ended) signal has set the session to waiting (idle) with
\* pending-tool false, a step that handles no signal (a log-file update or a
\* sweep) and leaves the signal held leaves that status in place.
C4_OverridesPersist ==
  [][sigReads' = sigReads =>
       /\ (StopOverride /\ StopHeld') => StopOverride'
       /\ (EndedOverride /\ EndedHeld') => EndedOverride']_vars

\* handleSignalFile resumes with a permission signal
AppliesPermission ==
  \E r \in sigReads :
    r.type = "permission" /\ r.stage = "data" /\ sigReads' = sigReads \ {r}

\* The permission signal handled last is still stored for a session to come:
\* its file is in place and no other read of it is in flight.
PermissionAwaitsSession ==
  /\ ~Live
  /\ handled = "permission"
  /\ sigFiles["permission"]
  /\ \A r \in sigReads : r.type # "permission"

\* C5: handling a permission signal while the session has no SessionState
\* stores it and emits nothing; the pass that creates the session then stores
\* it with pendingPermission set and status waiting, pending-tool true.
C5_StoredPermissionApplied ==
  [][/\ (AppliesPermission /\ ~Live) =>
          (SID \in pendingPermissions' /\ emitted' = <<>> /\ ~Live')
     /\ (PermissionAwaitsSession /\ Live') =>
          /\ sessions'[SID].pendingPermission
          /\ sessions'[SID].status.status = "waiting"
          /\ sessions'[SID].status.hasPendingToolUse]_vars

----------------------------------------------------------------------------
(* Properties of the deriver: the end-to-end scenarios *)

\* The derivation has replayed dEntries and run its timeout check.
Derived == dPc = "return"

\* An assistant entry with the tool call t1, then the user entry with t1's result.
ToolCallThenResult ==
  <<EntryShape(5, StampOf(1)), EntryShape(2, StampOf(2))>>

\* C11: for the entry list made of an assistant entry with a non-auto-approved
\* tool call and the user entry holding that call's tool result, the derived
\* status is working with pending-tool false (checked while the list is not stale).
C11_ToolResultReturnsToWorking ==
  (Derived /\ dEntries = ToolCallThenResult /\ now - StampOf(2) <= STALE_TIMEOUT_MS)
    => (ReturnedResult.status = "working" /\ ~ReturnedResult.hasPendingToolUse)

\* The indices of the entries of dEntries that yield an event.
RelevantIndices == { i \in 1..Len(dEntries) : logEntryToEvent(dEntries[i]) # NoEvent }

LastRelevant == CHOOSE i \in RelevantIndices : \A j \in RelevantIndices : j <= i

EndsWithPlainPrompt ==
  /\ RelevantIndices # {}
  /\ dEntries[LastRelevant].type = "user"
  /\ dEntries[LastRelevant].content = "string"

\* C12: when the last entry of the list that yields an event is a plain-text
\* user prompt and now is at most 60 s after it, the derived status is
\* working with pending-tool false, whatever precedes the prompt.
C12_PromptGivesWorking ==
  (Derived /\ EndsWithPlainPrompt
     /\ now - dEntries[LastRelevant].timestamp <= STALE_TIMEOUT_MS)
    => (ReturnedResult.status = "working" /\ ~ReturnedResult.hasPendingToolUse)

\* A prompt that follows a pending tool call and is followed by an entry
\* without event, evaluated exactly 60 s after the prompt.
C12_Witness ==
  /\ Derived /\ EndsWithPlainPrompt
  /\ Len(dEntries) = 3 /\ LastRelevant = 2
  /\ logEntryToEvent(dEntries[1]).type = "ASSISTANT_TOOL_USE"
  /\ now - dEntries[2].timestamp = STALE_TIMEOUT_MS
  /\ ReturnedResult.status = "working"

\* C13: deriving from the empty list gives waiting with pending-tool false,
\* message count 0 and no last-activity time at every instant, and sends no
\* timeout event.
C13_EmptyListDefined ==
  (Derived /\ dEntries = <<>>)
    => /\ ReturnedResult.status = "waiting"
       /\ ~ReturnedResult.hasPendingToolUse
       /\ ReturnedResult.messageCount = 0
       /\ ReturnedResult.lastActivityAt = NoTimestamp
       /\ dSent = <<>>

\* The empty list evaluated later than both thresholds after the epoch.
C13_Witness ==
  /\ Derived /\ dEntries = <<>>
  /\ now > STALE_TIMEOUT_MS
  /\ ReturnedResult.status = "waiting"

----------------------------------------------------------------------------
(* Properties of the event extraction *)

Extracted == dPc = "extracted"

\* The positions of the blocks of entry that are tool results, and of those
\* that are tool calls outside the auto-approved set.
ToolResultAt(entry) ==
  { j \in 1..Len(entry.blocks) : entry.blocks[j].type = "tool_result" }
NeedsApprovalAt(entry) ==
  { j \in 1..Len(entry.blocks) :
      entry.blocks[j].type = "tool_use" /\ entry.blocks[j].name \notin autoApprovedTools }

OnlyTextOrImage(entry) ==
  /\ entry.blocks # <<>>
  /\ \A j \in 1..Len(entry.blocks) : entry.blocks[j].type \in {"text", "image"}

\* The event carries exactly the ids of the blocks of entry at positions.
Carries(event, entry, positions) ==
  /\ SeqSet(event.toolUseIds) = { entry.blocks[j].id : j \in positions }
  /\ Len(event.toolUseIds) = Cardinality(positions)

\* The mapping of section 4.2, row by row, for the entry and the event extracted.
MappingOf(entry, event) ==
  IF entry.type = "user" /\ entry.content = "string"
    THEN event.type = "USER_PROMPT" /\ event.timestamp = entry.timestamp
  ELSE IF entry.type = "user" /\ ToolResultAt(entry) # {}
    THEN /\ event.type = "TOOL_RESULT" /\ event.timestamp = entry.timestamp
         /\ Carries(event, entry, ToolResultAt(entry))
  ELSE IF entry.type = "user" /\ OnlyTextOrImage(entry)
    THEN event.type = "USER_PROMPT" /\ event.timestamp = entry.timestamp
  ELSE IF entry.type = "assistant" /\ NeedsApprovalAt(entry) # {}
    THEN /\ event.type = "ASSISTANT_TOOL_USE" /\ event.timestamp = entry.timestamp
         /\ Carries(event, entry, NeedsApprovalAt(entry))
  ELSE IF entry.type = "assistant"
    THEN event.type = "ASSISTANT_STREAMING" /\ event.timestamp = entry.timestamp
  ELSE IF entry.type = "system" /\ entry.subtype \in {"turn_duration", "stop_hook_summary"}
    THEN event.type = "TURN_END" /\ event.timestamp = entry.timestamp
  ELSE event = NoEvent

\* C14: the event extracted from an entry is the one the mapping of section
\* 4.2 gives: USER_PROMPT for string content and for a content array of only
\* text and image blocks, TOOL_RESULT with exactly the resolved ids,
\* ASSISTANT_TOOL_USE with exactly the ids of the calls that need approval,
\* ASSISTANT_STREAMING for any other assistant entry, TURN_END for the two
\* system subtypes, and no event otherwise.
C14_ExtractionMapping == Extracted => MappingOf(dEntries[1], lastEvent)

----------------------------------------------------------------------------
(* Properties of the log reader *)

\* The part of the file the caller's last read saw.
SeenByReader == SubSeq(file, 1, reader.len)

HasRead == reader.len > 0

\* One pass over the whole of what the last read saw.
OnePass == tailJSONL(SeenByReader, 0)

\* A complete line lies between the offset given to the last read and the
\* end of what it saw.
CompleteLineAppended ==
  \E i \in (reader.prev + 1)..reader.len : file[i].type = "newline"

\* C15: the entries of successive reads, each from the offset the previous
\* one returned, are together the entries of one read from 0 to the same
\* end, and a read that meets newly appended complete lines returns an
\* offset greater than the one it was given.
C15_Incremental ==
  HasRead =>
    /\ reader.entries = OnePass.entries
    /\ reader.pos = OnePass.newPosition
    /\ CompleteLineAppended => reader.pos > reader.prev

\* A second read, from the offset of the first, has returned the second entry.
C15_Witness ==
  /\ reader.prev > 0
  /\ Len(reader.last) = 1
  /\ Len(reader.entries) = 2
  /\ reader.pos > reader.prev

\* The positions of content holding a well-formed line that is complete:
\* alone on its line and followed by its newline.
CompleteLinesAt(content) ==
  { i \in 1..Len(content) :
      /\ content[i].type \notin {"newline", "garbage"}
      /\ i = 1 \/ content[i - 1].type = "newline"
      /\ i < Len(content) /\ content[i + 1].type = "newline" }

\* The i-th smallest member of a set of positions.
NthOf(positions, i) ==
  CHOOSE p \in positions : Cardinality({ q \in positions : q <= p }) = i

\* The well-formed complete lines of content, in file order, each once.
CompleteLines(content) ==
  [ i \in 1..Cardinality(CompleteLinesAt(content)) |->
      content[NthOf(CompleteLinesAt(content), i)] ]

\* The end of the last complete line of content (0 when there is none).
LastLineEnd(content) ==
  IF \E i \in 1..Len(content) : content[i].type = "newline"
    THEN CHOOSE i \in 1..Len(content) :
           /\ content[i].type = "newline"
           /\ \A j \in (i + 1)..Len(content) : content[j].type # "newline"
    ELSE 0

\* C16: a trailing line without its newline is never returned and the
\* offset stays at the end of the last complete line; once the line is
\* completed the next read returns it whole, so that the entries returned
\* so far are the complete lines seen, each exactly once.
C16_PartialLineSafe ==
  HasRead =>
    /\ reader.pos = LastLineEnd(SeenByReader)
    /\ reader.entries = CompleteLines(SeenByReader)

\* The read before the last saw a line without its newline and left it; the
\* last read, from the offset returned then, has returned that line.
C16_Witness ==
  /\ reader.prevLen = reader.prev + 1
  /\ reader.len = reader.prev + 2
  /\ reader.pos = reader.len
  /\ Len(reader.last) = 1

----------------------------------------------------------------------------
(* Properties of the stored status *)

\* No handler is between two of its steps.
Quiescent == passes = {} /\ sigReads = {}

\* The status value and pending-tool flag that the entries, the signals held
\* in the three maps and an evaluation instant give: the held signal's
\* override, and the log-derived status when no signal is held.
StatusFrom(entries, instant) ==
  IF SID \in endedSignals THEN [status |-> "idle", hasPendingToolUse |-> FALSE]
  ELSE IF SID \in stopSignals THEN [status |-> "waiting", hasPendingToolUse |-> FALSE]
  ELSE IF SID \in pendingPermissions THEN [status |-> "waiting", hasPendingToolUse |-> TRUE]
  ELSE [status |-> deriveStatus(entries, instant).status,
        hasPendingToolUse |-> deriveStatus(entries, instant).hasPendingToolUse]

StoredStatus ==
  [status |-> sessions[SID].status.status,
   hasPendingToolUse |-> sessions[SID].status.hasPendingToolUse]

\* C17: the stored status value and pending-tool flag of a session are those
\* given by its entries, the signals held for it and some evaluation instant
\* up to now, whatever signals were received and removed earlier.
C17_NoHiddenState ==
  (Live /\ Quiescent) =>
    \E instant \in { t \in Clock : t <= now } :
      StoredStatus = StatusFrom(sessions[SID].entries, instant)

----------------------------------------------------------------------------
(* Properties of the events *)

\* The events of type "updated" emitted by the step just taken.
UpdatedEmitted(events) == { i \in 1..Len(events) : events[i].type = "updated" }

\* C18: no step of a handler emits an updated event whose session state is
\* the state the session had before the step.
C18_EmitsOnlyChanges ==
  [][\A i \in UpdatedEmitted(emitted') :
       Live => emitted'[i].session # sessions[SID]]_vars

\* A pass has stored new entries for a session that was in the map.
LogUpdate ==
  /\ Live /\ Live'
  /\ sessions'[SID].entries # sessions[SID].entries

\* A pass has stored a session that was not in the map.
Detected == ~Live /\ Live'

\* The session that the store of a log update replaced. When the pass had
\* removed a signal file, the removal's own handler ran first in the same
\* step, and its event, which still has the old entries, carries the session
\* as it left it.
Replaced ==
  IF emitted' # <<>> /\ emitted'[1].session.entries = sessions[SID].entries
    THEN emitted'[1].session
    ELSE sessions[SID]

\* What the update changed, against the session it replaced.
StatusValueChanged == sessions'[SID].status.status # Replaced.status.status
CountIncreased == sessions'[SID].status.messageCount > Replaced.status.messageCount
BranchChanged == sessions'[SID].gitBranch # Replaced.gitBranch

\* C19: a log-file update that changes the status, raises the message count
\* or changes the branch emits an updated event with the new SessionState
\* and the status the session had just before; a newly detected session
\* emits a created event with its SessionState.
C19_UpdateEvents ==
  [][/\ (LogUpdate /\ (StatusValueChanged \/ CountIncreased \/ BranchChanged)) =>
          \E i \in 1..Len(emitted') :
            /\ emitted'[i].type = "updated"
            /\ emitted'[i].session = sessions'[SID]
            /\ emitted'[i].previousStatus = Replaced.status
     /\ Detected =>
          \E i \in 1..Len(emitted') :
            /\ emitted'[i].type = "created"
            /\ emitted'[i].session = sessions'[SID]]_vars

\* The log file has just been unlinked while its session was tracked.
Unlinked == fileState # "deleted" /\ fileState' = "deleted" /\ Live

\* The events of type "deleted" emitted by the step just taken.
DeletedEmitted(events) == { i \in 1..Len(events) : events[i].type = "deleted" }

\* The passes that were in flight when a tracked session's file was unlinked
\* have finished.
LastPassEnds == deletedTracked' /\ passes' = {}

\* C20: the unlink of a tracked session's log file removes the session and
\* emits exactly one deleted event carrying the state it had, and when the
\* passes that were in flight have finished the session is absent from the map.
C20_DeleteIsFinal ==
  [][/\ Unlinked =>
          /\ ~Live'
          /\ Cardinality(DeletedEmitted(emitted')) = 1
          /\ \A i \in DeletedEmitted(emitted') : emitted'[i].session = sessions[SID]
     /\ LastPassEnds => ~Live']_vars

----------------------------------------------------------------------------
(* Properties of the replay: the message count and the pending tool ids *)

\* The loop has just sent the event of one entry: prevActor is the snapshot
\* before it, lastEvent the event (NoEvent when the entry has none).
Sent == dPc = "loop" /\ dIdx > 1

\* The events each state of the machine has a transition for.
Accepts(value, type) ==
  CASE value = "working" ->
         type \in {"USER_PROMPT", "ASSISTANT_STREAMING", "ASSISTANT_TOOL_USE",
                   "TOOL_RESULT", "TURN_END", "APPROVAL_TIMEOUT", "STALE_TIMEOUT"}
    [] value = "waiting_for_approval" -> type = "TOOL_RESULT"
    [] value = "waiting_for_input" ->
         type \in {"USER_PROMPT", "ASSISTANT_STREAMING", "TURN_END"}

Counted ==
  /\ lastEvent.type \in {"USER_PROMPT", "ASSISTANT_TOOL_USE", "TOOL_RESULT"}
  /\ Accepts(prevActor.value, lastEvent.type)

\* The count the deriver returns for the first k entries.
CountOfPrefix(k) == deriveStatus(SubSeq(dEntries, 1, k), now).messageCount

PendingBefore == SeqSet(prevActor.context.pendingToolIds)
PendingAfter == SeqSet(actor.context.pendingToolIds)

\* C24: during replay pendingToolIds holds the ids still awaiting a result:
\* an accepted ASSISTANT_TOOL_USE adds its ids to those already pending, an
\* accepted TOOL_RESULT removes the ids it resolves and no others, a user
\* prompt or a turn end met while working empties the set, and nothing else
\* changes it.
C24_PendingToolIds ==
  Sent =>
    IF ~Accepts(prevActor.value, lastEvent.type) THEN PendingAfter = PendingBefore
    ELSE IF lastEvent.type = "ASSISTANT_TOOL_USE"
      THEN PendingAfter = PendingBefore \cup SeqSet(lastEvent.toolUseIds)
    ELSE IF lastEvent.type = "TOOL_RESULT"
      THEN PendingAfter = PendingBefore \ SeqSet(lastEvent.toolUseIds)
    ELSE IF lastEvent.type \in {"USER_PROMPT", "TURN_END"} /\ prevActor.value = "working"
      THEN PendingAfter = {}
    ELSE PendingAfter = PendingBefore

----------------------------------------------------------------------------
(* Properties of the failure handling *)

ErrorsEmitted(events) == { i \in 1..Len(events) : events[i].type = "error" }

\* C22: a read that fails because the file is momentarily missing or locked
\* emits no error event and leaves the session map as it was, and the pass
\* that the next trigger starts reads from the offset stored before.
C22_TransientFailure ==
  [][/\ PassReadFails =>
          /\ ErrorsEmitted(emitted') = {}
          /\ sessions' = sessions
     /\ (DebounceFireIdle /\ Live) =>
          \A p \in passes' : p.ex.bytePosition = sessions[SID].bytePosition]_vars

----------------------------------------------------------------------------
(* Properties of the update pass: the signals it clears *)

\* A step of the pass in flight, from one await to the next or to its end.
PassStep == PassGitMain \/ PassUnlinkPermission \/ PassUnlinkStop

\* The step has stored the session with the entries the pass read.
Stored(p) ==
  /\ Live'
  /\ sessions'[SID].entries # <<>>
  /\ ~Live \/ sessions'[SID].entries # sessions[SID].entries
  /\ p \notin passes'

Unstored == sessions' = sessions

\* The pass is at the check of lines 482-495, resp. of lines 497-509.
AtPermissionCheck(p) == p.stage = "git"
AtStopCheck(p) ==
  \/ p.stage = "unlinkPermission"
  \/ p.stage = "git" /\ ~(hasToolResult(p.newEntries) /\ SID \in pendingPermissions)

LogDerived(session) ==
  /\ session.status.status = deriveStatus(session.entries, now).status
  /\ session.status.hasPendingToolUse = deriveStatus(session.entries, now).hasPendingToolUse

----------------------------------------------------------------------------
(* Properties of the removal of a permission signal *)

\* The permission signal file has just been removed.
PermissionRemoved == sigFiles["permission"] /\ ~sigFiles'["permission"]

HoldsPermission == Live /\ sessions[SID].pendingPermission

\* The session as the removal handler leaves it.
Recomputed ==
  [sessions[SID] EXCEPT !.pendingPermission = FALSE,
                        !.status = deriveStatus(sessions[SID].entries, now)]

\* The events of the step that carry the entries the session had before:
\* those of the removal handler, not of a pass that stores new entries after.
OfRemoval(events) ==
  { i \in 1..Len(events) : Live /\ events[i].session.entries = sessions[SID].entries }

----------------------------------------------------------------------------
(* Properties of the sweep *)

\* What the sweep recomputes for the session, and whether it differs from
\* the stored status in status value, lastRole or pending-tool flag.
Recheck == deriveStatus(sessions[SID].entries, now)
Differs ==
  \/ Recheck.status # sessions[SID].status.status
  \/ Recheck.lastRole # sessions[SID].status.lastRole
  \/ Recheck.hasPendingToolUse # sessions[SID].status.hasPendingToolUse

\* The signal maps, the signal files and the passes in flight stay as they are,
\* but for the session object the passes hold.
SweepFrame ==
  /\ pendingPermissions' = pendingPermissions
  /\ stopSignals' = stopSignals
  /\ endedSignals' = endedSignals
  /\ sigFiles' = sigFiles
  /\ Cardinality(passes') = Cardinality(passes)

\* C28: a sweep touches only a session stored as working, and that one only
\* when the recomputed status differs in status value, lastRole or
\* pending-tool flag: then the status is replaced and one updated event is
\* emitted; otherwise the sweep changes nothing and emits nothing.
C28_SweepFrame ==
  [][Sweep =>
      /\ SweepFrame
      /\ IF Live /\ sessions[SID].status.status = "working" /\ Differs
           THEN /\ sessions'[SID] = [sessions[SID] EXCEPT !.status = Recheck]
                /\ emitted' = <<SessionEvent("updated", sessions'[SID], sessions[SID].status)>>
           ELSE /\ sessions' = sessions
                /\ passes' = passes
                /\ emitted' = <<>>]_vars

\* The sweep has moved a session that holds no signal, and whose entries are
\* those it was created with, from working to waiting after the threshold.
C28_Witness ==
  /\ Live /\ passes = {}
  /\ Len(sessions[SID].entries) = 1
  /\ Len(emitted) = 1
  /\ emitted[1].type = "updated"
  /\ emitted[1].previousStatus.status = "working"
  /\ emitted[1].session = sessions[SID]
  /\ sessions[SID].status.status = "waiting"
  /\ ~sessions[SID].pendingPermission /\ ~sessions[SID].hasStopSignal
  /\ ~sessions[SID].hasEndedSignal
  /\ now - sessions[SID].status.lastActivityAt > STALE_TIMEOUT_MS

\* The log has gone quiet: the writer has stopped, no timer is pending and
\* no pass is in flight.
Quiet == now > 1000 /\ passes = {} /\ ~debounceTimer

StoredWorking == Live /\ sessions[SID].status.status = "working"

\* The state a sweep leaves when it has just moved the session out of working.
SweptTo(pending) ==
  /\ Live
  /\ sessions[SID].status.status = "waiting"
  /\ sessions[SID].status.hasPendingToolUse = pending
  /\ Len(emitted) = 1
  /\ emitted[1].type = "updated"
  /\ emitted[1].session = sessions[SID]
  /\ emitted[1].previousStatus.status = "working"

\* C27: a session stored as working whose log has gone quiet is moved by
\* the sweep to waiting with pending-tool true when a tool call is pending,
\* and to waiting with pending-tool false otherwise, with one updated event.
C27_SweepLiveness ==
  /\ (Quiet /\ StoredWorking /\ sessions[SID].status.hasPendingToolUse) ~> SweptTo(TRUE)
  /\ (Quiet /\ StoredWorking /\ ~sessions[SID].status.hasPendingToolUse) ~> SweptTo(FALSE)

\* The sweep has found the pending tool call of a quiet session older than
\* the approval threshold, before the staleness threshold.
C27_Witness ==
  /\ Quiet /\ SweptTo(TRUE)
  /\ now - sessions[SID].status.lastActivityAt > APPROVAL_TIMEOUT_MS
  /\ now - sessions[SID].status.lastActivityAt <= STALE_TIMEOUT_MS

----------------------------------------------------------------------------
(* Properties of the debounce *)

\* The instants at which a pass for the path was started.
StartedAt(p) == {debounce.started[p][i] : i \in 1..Len(debounce.started[p])}

\* The timers pending for the path.
PendingOf(p) == {timer \in debounce.timers : timer.path = p}

\* A change event for the path arrived strictly between the two instants.
ChangedBetween(p, from, to) ==
  \E u \in debounce.changes[p] : from < u /\ u < to

\* C29: for each path, at most one timer is pending; every pass started for
\* it started debounceMs after a change event that no other change event of
\* the path followed within debounceMs, and no two passes at one instant; and
\* every change event that none follows within debounceMs has its pass
\* started debounceMs later, or its timer still pending when that instant has
\* not passed. The other path's change events play no part.
C29_Debounce ==
  \A p \in Paths :
    /\ Cardinality(PendingOf(p)) <= 1
    /\ Cardinality(StartedAt(p)) = Len(debounce.started[p])
    /\ \A s \in StartedAt(p) :
         /\ s - debounceMs \in debounce.changes[p]
         /\ ~ChangedBetween(p, s - debounceMs, s)
    /\ \A t \in debounce.changes[p] :
         ~ChangedBetween(p, t, t + debounceMs + 1) =>
           \/ t + debounceMs \in StartedAt(p)
           \/ /\ t + debounceMs >= debounce.clock
              /\ [path |-> p, due |-> t + debounceMs] \in debounce.timers

\* A burst of two change events for one path has started one pass, while
\* the other path's single change event, which came during the burst's
\* wait, has started its own pass debounceMs after it.
C29_Witness ==
  /\ debounce.changes["a.jsonl"] = {0, 100}
  /\ debounce.started["a.jsonl"] = <<300>>
  /\ debounce.changes["b.jsonl"] = {200}
  /\ debounce.started["b.jsonl"] = <<400>>

----------------------------------------------------------------------------
(* Properties of start() and stop() *)

\* C21: once stop() has been called, no debounce-timer callback and no
\* interval callback runs any more, wherever start() was when it was called.
C21_StopIsFinal ==
  [][life.stopped => life'.callbacks = life.callbacks]_vars

\* The session of a created event the step emits, if it emits one.
CreatedEmitted(events) ==
  {events[i].session : i \in {j \in 1..Len(events) : events[j].type = "created"}}

\* The session shows the signal of the given type.
Reflects(session, type) ==
  IF type = "permission"
    THEN /\ session.pendingPermission
         /\ session.status.status = "waiting"
         /\ session.status.hasPendingToolUse
  ELSE IF type = "stop" THEN session.hasStopSignal
  ELSE session.hasEndedSignal

\* C26: a session created from the log file the initial scan found shows
\* the signal whose file was there before the daemon started.
C26_SignalsBeforeScan ==
  [][\A session \in CreatedEmitted(emitted') :
       \A type \in life.preexisting : Reflects(session, type)]_vars

----------------------------------------------------------------------------
(* Properties of the replay: the pending flag, unhandled events, the timeouts *)

\* The deriver is running or has returned.
Replaying == dPc \in {"loop", "return", "done"}

FlagMatchesIds(context) ==
  context.hasPendingToolUse <=> (context.pendingToolIds # <<>>)

\* C33: in every state of the replay, after the timeout check and in the
\* context returned, hasPendingToolUse is true exactly when pendingToolIds
\* is not empty.
C33_FlagMatchesIds ==
  Replaying => (FlagMatchesIds(actor.context) /\ FlagMatchesIds(dResult.context))

\* The approval timeout has been raised with a tool call pending: the
\* context returned has the flag and one id.
C33_Witness ==
  /\ dPc = "done"
  /\ dResult.value = "waiting_for_approval"
  /\ dResult.context.hasPendingToolUse
  /\ Len(dResult.context.pendingToolIds) = 1

\* The indices of the entries that are assistant entries or turn ends.
AssistantOrTurnEnd ==
  { i \in 1..Len(dEntries) :
      logEntryToEvent(dEntries[i]).type
        \in {"ASSISTANT_STREAMING", "ASSISTANT_TOOL_USE", "TURN_END"} }

LastAssistantOrTurnEnd ==
  CHOOSE i \in AssistantOrTurnEnd : \A j \in AssistantOrTurnEnd : j <= i

NoPrompt ==
  \A i \in 1..Len(dEntries) : logEntryToEvent(dEntries[i]).type # "USER_PROMPT"

\* C34: an event the current state has no transition for leaves the state
\* and the context as they are; and a list without an entry that maps to
\* USER_PROMPT is derived as waiting at every instant, with lastActivityAt
\* the timestamp of its last assistant or turn-end entry.
C34_NoPromptNeverWorking ==
  /\ (Sent /\ lastEvent # NoEvent /\ ~Accepts(prevActor.value, lastEvent.type))
       => actor = prevActor
  /\ (Derived /\ NoPrompt) =>
       /\ ReturnedResult.status = "waiting"
       /\ AssistantOrTurnEnd # {} =>
            ReturnedResult.lastActivityAt = dEntries[LastAssistantOrTurnEnd].timestamp

\* C35: in one derivation at most one timeout event is sent, and after the
\* loop; the loop never sends an event to waiting_for_approval, so no event
\* of the log takes the transition from waiting_for_approval to working; and
\* the actor is in waiting_for_approval only after the timeout check has
\* sent APPROVAL_TIMEOUT.
C35_TimeoutsLast ==
  /\ Len(dSent) <= 1
  /\ dPc = "loop" => dSent = <<>>
  /\ Sent => prevActor.value # "waiting_for_approval"
  /\ (Replaying /\ actor.value = "waiting_for_approval") =>
       /\ dPc \in {"return", "done"}
       /\ dSent = <<Event("APPROVAL_TIMEOUT", NoTimestamp, <<>>)>>
       /\ dReplayed.value = "working"

\* A tool call and then its result have been replayed, and the approval
\* timeout was raised for a second call after them.
C35_Witness ==
  /\ Derived /\ Len(dEntries) = 3
  /\ logEntryToEvent(dEntries[2]).type = "TOOL_RESULT"
  /\ logEntryToEvent(dEntries[3]).type = "ASSISTANT_TOOL_USE"
  /\ actor.value = "waiting_for_approval"
  /\ dSent = <<Event("APPROVAL_TIMEOUT", NoTimestamp, <<>>)>>

----------------------------------------------------------------------------
(* Properties of the pending permission *)

\* C36: a session in the map with pendingPermission set is stored as waiting
\* with pending-tool true, and the permission map holds its id; in every
\* state, the states between the awaits of a pass included.
C36_PermissionConsistent ==
  (Live /\ sessions[SID].pendingPermission)
    => /\ sessions[SID].status.status = "waiting"
       /\ sessions[SID].status.hasPendingToolUse
       /\ SID \in pendingPermissions

\* C37: when the permission signal file is gone and no call of
\* handleSignalFile is in flight, the watcher holds no pending permission:
\* the permission map does not hold the session's id and the session stored
\* has pendingPermission unset.
C37_RemovedPermissionForgotten ==
  (~sigFiles["permission"] /\ sigReads = {})
    => /\ SID \notin pendingPermissions
       /\ Live => ~sessions[SID].pendingPermission

----------------------------------------------------------------------------
(* Properties of the created event *)

EventsOfType(events, type) == { i \in 1..Len(events) : events[i].type = type }

\* C38: while the log file exists, a created event is emitted only for a
\* session the map does not hold yet, a session enters the map only with
\* its created event, and an updated event is emitted only for a session
\* the map holds: so one created event at most, before every updated event.
C38_CreatedOnce ==
  [][fileState' = "present" =>
       /\ EventsOfType(emitted', "created") # {} => ~Live
       /\ Cardinality(EventsOfType(emitted', "created")) <= 1
       /\ (~Live /\ Live') => EventsOfType(emitted', "created") # {}
       /\ EventsOfType(emitted', "updated") # {} => Live]_vars

----------------------------------------------------------------------------
(* Properties of what the signal handlers and the sweep leave alone *)

\* What only a log-file pass may change.
LogPart(session) ==
  <<session.entries, session.bytePosition, session.gitBranch,
    session.status.lastActivityAt, session.status.messageCount>>

\* A step of a signal handler: a signal file is written, read, applied or removed.
SignalStep ==
  HookPermission \/ HookStop \/ HookSessionEnd \/ CleanupEnded \/ SignalRead \/ SignalApply

\* C39: a step of a signal handler or of the sweep neither adds nor removes
\* the session and leaves its entries, bytePosition, branch, lastActivityAt
\* and message count as they are; whenever one of these changes the step is
\* a step of a pass; and a pass that ends at its read changes no session and
\* emits nothing.
C39_LogPartFrame ==
  [][/\ (SignalStep \/ Sweep) =>
          /\ Live' = Live
          /\ Live => LogPart(sessions'[SID]) = LogPart(sessions[SID])
     /\ (Live /\ Live' /\ LogPart(sessions'[SID]) # LogPart(sessions[SID])) => PassStep
     /\ (PassRead /\ passes' = {}) => (sessions' = sessions /\ emitted' = <<>>)]_vars

\* The stop signal has just been applied to a working session with two
\* messages: the event carries the same two entries and the same count.
C39_Witness ==
  /\ Len(emitted) = 1
  /\ emitted[1].type = "updated"
  /\ handled = "stop"
  /\ emitted[1].session.hasStopSignal
  /\ emitted[1].previousStatus.status = "working"
  /\ emitted[1].previousStatus.messageCount = 2
  /\ emitted[1].session.status.messageCount = 2
  /\ Len(emitted[1].session.entries) = 2

----------------------------------------------------------------------------
(* Properties of the branch *)

\* C40: when an update pass stores the session with branchChanged true, the
\* gitBranch it stores differs from the one the session had.
C40_BranchChangedIsReal ==
  [][(PassGit /\ Live /\ Live' /\ sessions' # sessions /\ sessions'[SID].branchChanged)
       => sessions'[SID].gitBranch # sessions[SID].gitBranch]_vars

----------------------------------------------------------------------------
(* Properties of the deferred creation *)

\* The file does not hold enough for extractMetadata yet.
TooLittle == fileState = "present" /\ ~HasMetadata(tailJSONL(file, 0).entries)

\* C31: while the file holds too little for the metadata, no step creates
\* the session and the read of a pass emits nothing, no error either; and
\* the session a later pass creates holds the entries of the file from
\* offset 0 to its bytePosition, each once.
C31_DeferredCreation ==
  [][/\ (TooLittle /\ ~Live) => ~Live'
     /\ (TooLittle /\ ~Live /\ PassRead) => emitted' = <<>>
     /\ (~Live /\ Live' /\ fileState' = "present") =>
          /\ EventsOfType(emitted', "created") # {}
          /\ sessions'[SID].entries = ParsedUpTo(sessions'[SID].bytePosition)
          /\ HasMetadata(sessions'[SID].entries)]_vars

\* The file began with an assistant entry, which gives no metadata; the
\* session was created once the prompt had followed and holds both entries.
C31_Witness ==
  /\ Len(emitted) = 1
  /\ emitted[1].type = "created"
  /\ Len(emitted[1].session.entries) = 2
  /\ emitted[1].session.entries[1].type = "assistant"
  /\ emitted[1].session.entries[2].type = "user"
  /\ emitted[1].session.bytePosition = Len(file)

----------------------------------------------------------------------------
(* Properties of the startup batch of signal files *)

\* The file cannot be used: its name does not match, or it cannot be read
\* or parsed.
Unusable(signalFile) ==
  signalFile.name \notin SignalTypes \/ signalFile.content # "json"

\* The call of handleSignalFile the loop awaited has settled in this step.
Settled == life.awaiting # NoFile /\ life'.awaiting = NoFile

\* C32: the call for a file that cannot be used leaves the three signal maps
\* and the sessions as they are and emits nothing; the call for a file that
\* can be used applies its signal; and when the loop is over it has called
\* handleSignalFile for every file of the listing, in order.
C32_BadSignalFileSkipped ==
  [][/\ (Settled /\ Unusable(life.awaiting)) =>
          /\ pendingPermissions' = pendingPermissions
          /\ stopSignals' = stopSignals
          /\ endedSignals' = endedSignals
          /\ sessions' = sessions
          /\ emitted' = <<>>
     /\ (Settled /\ ~Unusable(life.awaiting)) => handled' = life.awaiting.name
     /\ life'.phase = "started" => life'.done = life.batch]_vars

\* A file that cannot be parsed came first and the stop signal after it was
\* still loaded into the tracked session.
C32_Witness ==
  /\ life.phase = "started"
  /\ Len(life.batch) = 2
  /\ life.batch[1].content = "garbage"
  /\ life.batch[1].name = "permission"
  /\ life.batch[2] = [name |-> "stop", content |-> "json"]
  /\ life.done = life.batch
  /\ Live /\ sessions[SID].hasStopSignal /\ ~sessions[SID].pendingPermission
  /\ pendingPermissions = {}

====
